---- MODULE Spec2Model ----
(***************************************************************************)
(* A model of the HAND compiler toolchain (gnew1/HAND): capability         *)
(* enforcement over the IR, the layout lexer, the recursive-descent        *)
(* parser, the flow-sensitive typechecker, the reference interpreter and   *)
(* the host-language backend with its equivalence oracle.                  *)
(*                                                                         *)
(* Each component is a specification of its own over the module's          *)
(* variables (SpecCap, SpecLex, SpecParse, SpecTC, SpecRun); the variables *)
(* of the other components stay at their idle values.                     *)
(***************************************************************************)
EXTENDS Integers, Sequences, FiniteSets, TLC

VARIABLES
    \* ---- capability enforcer (enforce.py) ----
    ir,                 \* the IR handed to enforce_capabilities
    supervision_level,  \* 1..4
    approvals,          \* set of approved capabilities
    scope,              \* "module" | "function"
    enf_pc,             \* position inside enforce_capabilities
    enf_k,              \* index into sorted(required) of the policy loop
    enf_fn,             \* index of the function being checked (function scope)
    checked,            \* the capabilities handed to check_cap so far, in order
    raised,             \* the CapabilityError diagnostics raised so far
    cap_diags,          \* the local list `diags` that is returned
    returned,           \* the IR returned on success (NoIR before)
    \* ---- lexer (lexer.py) ----
    src_lines,          \* the source text, split into lines
    lex_li,             \* 1-based index of the next line to lex
    indent_stack,       \* the lexer's indent stack
    tokens,             \* the token list built so far
    lex_diags,          \* the lexer's diagnostics list
    lex_pc,             \* "lines" | "eof" | "done" | "idle"
    \* ---- typechecker (typecheck.py) ----
    tc_items,           \* program.items
    tc_i,               \* 1-based index of the next item
    tc_frames,          \* TypeChecker.env.frames
    tc_diags,           \* the codes of TypeChecker.diags
    tc_current_return,  \* TypeChecker.current_return
    tc_pc,              \* "items" | "done" | "idle"
    \* ---- parser (handc_interpreter_v0_1 parser.py) ----
    ptoks,              \* Parser.toks
    p_i,                \* Parser.i, the 0-based cursor
    p_diags,            \* Parser.diagnostics
    p_skipped,          \* indices of the tokens dropped by error recovery
    p_items,            \* the local list `items` of parse()
    p_pc,               \* "loop" | "done" | "idle"
    \* ---- reference interpreter (Interpreter.run) ----
    rt_items,           \* program.items
    rt_inputs,          \* Interpreter.inputs
    rt_max_steps,       \* Interpreter.max_steps
    rt_max_loop_iters,  \* Interpreter.max_loop_iters
    rt_top,             \* the local list `top` of run()
    rt_functions,       \* Interpreter.functions
    rt_k,               \* index of the next statement of `top`
    rt_it,              \* the Interpreter object
    rt_pc,              \* "new" | "run" | "except" | "done" | "failed" |
                        \* "crashed" | "idle"
    \* ---- equivalence oracle (run_equivalence, python target) ----
    or_pc,              \* "start" | "ref" | "gen" | "done" | "idle"
    or_ir,              \* the lowered module
    or_ref_obs,         \* ref_obs
    or_gen,             \* Store and Runtime of the generated program
    or_status,          \* results["python"]["status"], or the way it ended
    \* ---- compiler driver (cli.py build / main) ----
    b_pc,               \* the stage build() is about to run, then "returned"
                        \* | "raised" | "exited" | "idle"
    b_target,           \* --target
    b_level,            \* --level
    b_emit_ir,          \* --emit-ir
    b_emit_ast,         \* --emit-ast
    b_ir,               \* the lowered IR
    b_calls,            \* the stages invoked so far, with what they gave back
    b_report,           \* the report dict
    b_files,            \* names of the files written under --out
    b_rc,               \* the exit code, -1 before
    \* ---- translation validator (transliterate.py) ----
    tr_pc,              \* "start" | "compare" | "done" | "idle"
    tr_base,            \* base_src, as lines
    tr_cand,            \* cand_src, as lines
    tr_toks,            \* base_toks and cand_toks once lexed
    tr_violations,      \* the violations returned
    \* ---- lowering (lowering.py lower_program) ----
    lw_pc,              \* "start" | "items" | "returned" | "idle"
    lw_program,         \* program.items
    lw_i,               \* the item the loop is at
    lw_n,               \* ids.n
    lw_top,             \* top
    lw_fns,             \* fns
    lw_caps,            \* caps
    lw_results,         \* the IRs returned so far
    \* ---- one call of Interpreter._eval_bin ----
    eb_pc,              \* "call" | "done" | "idle"
    eb_a,               \* a
    eb_op,              \* op
    eb_b,               \* b
    eb_out,             \* what the call raised (exc) or returned (v)
    \* ---- WebAssembly backend (wasm_gen.py gen_wat) ----
    wg_pc,              \* "start" | "functions" | "returned" | "raised" | "idle"
    wg_ir,              \* ir["module"]
    wg_k,               \* the function the loop is at
    wg_lines,           \* lines
    wg_err,             \* the code of the WasmGenError raised, "" for none
    \* ---- format round trip (handc_parser_v0_1) ----
    fm_pc,              \* "start" | "parsed" | "formatted" | "done" | "idle"
    fm_src,             \* the source text
    fm_ast,             \* the program the source parses to
    fm_clean,           \* no diagnostic from lexing and parsing the source
    fm_text,            \* format_hand of that program
    fm_ast2,            \* the program the formatted text parses to
    fm_clean2,          \* no diagnostic from lexing and parsing that text
    fm_text2,           \* format_hand of the second program
    \* ---- a second call of enforce_capabilities on the same IR ----
    rr_level            \* the level the IR was accepted at before, 0 for none

capVars == <<ir, supervision_level, approvals, scope, enf_pc, enf_k, enf_fn,
             checked, raised, cap_diags, returned>>

lexVars == <<src_lines, lex_li, indent_stack, tokens, lex_diags, lex_pc>>

tcVars == <<tc_items, tc_i, tc_frames, tc_diags, tc_current_return, tc_pc>>

parseVars == <<ptoks, p_i, p_diags, p_skipped, p_items, p_pc>>

rtVars == <<rt_items, rt_inputs, rt_max_steps, rt_max_loop_iters, rt_top,
           rt_functions, rt_k, rt_it, rt_pc>>

orVars == <<or_pc, or_ir, or_ref_obs, or_gen, or_status>>

buildVars == <<b_pc, b_target, b_level, b_emit_ir, b_emit_ast, b_ir, b_calls,
              b_report, b_files, b_rc>>

trVars == <<tr_pc, tr_base, tr_cand, tr_toks, tr_violations>>

lwVars == <<lw_pc, lw_program, lw_i, lw_n, lw_top, lw_fns, lw_caps, lw_results>>

ebVars == <<eb_pc, eb_a, eb_op, eb_b, eb_out>>

wgVars == <<wg_pc, wg_ir, wg_k, wg_lines, wg_err>>

fmVars == <<fm_pc, fm_src, fm_ast, fm_clean, fm_text, fm_ast2, fm_clean2, fm_text2>>

\* the components that follow the WebAssembly backend
rrVars == <<rr_level>>

lastVars == <<fmVars, rrVars>>

\* the components that follow the oracle
laterVars == <<buildVars, trVars, lwVars, ebVars, wgVars, lastVars>>

vars == <<capVars, lexVars, tcVars, parseVars, rtVars, orVars, laterVars>>

nonCapVars == <<lexVars, tcVars, parseVars, rtVars, orVars, laterVars>>
nonLexVars == <<capVars, tcVars, parseVars, rtVars, orVars, laterVars>>
nonTcVars == <<capVars, lexVars, parseVars, rtVars, orVars, laterVars>>
nonParseVars == <<capVars, lexVars, tcVars, rtVars, orVars, laterVars>>
nonRtVars == <<capVars, lexVars, tcVars, parseVars, orVars, laterVars>>
nonOrVars == <<capVars, lexVars, tcVars, parseVars, rtVars, laterVars>>
earlierVars == <<capVars, lexVars, tcVars, parseVars, rtVars, orVars>>
nonBuildVars == <<earlierVars, trVars, lwVars, ebVars, wgVars, lastVars>>
nonTrVars == <<earlierVars, buildVars, lwVars, ebVars, wgVars, lastVars>>
nonLwVars == <<earlierVars, buildVars, trVars, ebVars, wgVars, lastVars>>
nonEbVars == <<earlierVars, buildVars, trVars, lwVars, wgVars, lastVars>>
nonWgVars == <<earlierVars, buildVars, trVars, lwVars, ebVars, lastVars>>
middleVars == <<buildVars, trVars, lwVars, ebVars, wgVars>>
nonFmVars == <<earlierVars, middleVars, rrVars>>

(***************************************************************************)
(* Generic helpers                                                         *)
(***************************************************************************)
Range(s) == {s[i] : i \in 1..Len(s)}

RECURSIVE SeqsUpTo(_, _)
SeqsUpTo(S, n) ==
    IF n = 0 THEN {<<>>}
    ELSE LET prev == SeqsUpTo(S, n - 1)
         IN  prev \cup {Append(q, x) : q \in {p \in prev : Len(p) = n - 1}, x \in S}

\* the value of F at v, with v computed once
Bind(v, F(_)) == CHOOSE r \in {F(y) : y \in {v}} : TRUE

(***************************************************************************)
(* lexer.py: lex -- layout (INDENT/DEDENT) handling                        *)
(***************************************************************************)
\* a source line: its count of leading spaces and what follows them
\*   "blank": nothing but whitespace      (line.strip() == "")
\*   "stmt" : characters that lex to one token
\*   "junk" : a character no rule accepts (HND-LEX-0001, no token)
SrcLine(indent, text) == [indent |-> indent, text |-> text]

Token(kind, line) == [kind |-> kind, line |-> line]
Diag(code, line) == [code |-> code, line |-> line]

Top(stack) == stack[Len(stack)]

\* lexer.py 159-161: while indent_stack and indent < indent_stack[-1]: pop
RECURSIVE PopLarger(_, _)
PopLarger(stack, indent) ==
    IF stack # <<>> /\ indent < Top(stack)
    THEN PopLarger(SubSeq(stack, 1, Len(stack) - 1), indent)
    ELSE stack

\* mutant: a jump is reported only when it is larger than one level
IndentStep_OnlyLargerJumps(indent, stack, li) ==
    LET d1 == IF indent % 4 # 0 THEN <<Diag("HND-INDENT-0001", li)>> ELSE <<>>
    IN  IF indent > Top(stack)
        THEN [stack |-> Append(stack, indent),
              toks  |-> <<Token("INDENT", li)>>,
              diags |-> d1 \o (IF indent - Top(stack) > 4
                               THEN <<Diag("HND-INDENT-0002", li)>> ELSE <<>>)]
        ELSE IF indent < Top(stack)
        THEN LET popped == PopLarger(stack, indent)
             IN  [stack |-> popped,
                  toks  |-> [k \in 1..(Len(stack) - Len(popped)) |-> Token("DEDENT", li)],
                  diags |-> d1 \o (IF indent # Top(popped)
                                   THEN <<Diag("HND-INDENT-0003", li)>> ELSE <<>>)]
        ELSE [stack |-> stack, toks |-> <<>>, diags |-> d1]

\* lexer.py 147-163: the layout step of a non-blank line
IndentStep(indent, stack, li) ==
    LET d1 == IF indent % 4 # 0 THEN <<Diag("HND-INDENT-0001", li)>> ELSE <<>>
    IN  IF indent > Top(stack)
        THEN [stack |-> Append(stack, indent),
              toks  |-> <<Token("INDENT", li)>>,
              diags |-> d1 \o (IF indent - Top(stack) # 4
                               THEN <<Diag("HND-INDENT-0002", li)>> ELSE <<>>)]
        ELSE IF indent < Top(stack)
        THEN LET popped == PopLarger(stack, indent)
             IN  [stack |-> popped,
                  toks  |-> [k \in 1..(Len(stack) - Len(popped)) |-> Token("DEDENT", li)],
                  diags |-> d1 \o (IF indent # Top(popped)
                                   THEN <<Diag("HND-INDENT-0003", li)>> ELSE <<>>)]
        ELSE [stack |-> stack, toks |-> <<>>, diags |-> d1]

\* lexer.py 165-233: the tokens and diagnostics of the rest of the line
LineBody(text, li) ==
    IF text = "stmt" THEN [toks |-> <<Token("IDENT", li)>>, diags |-> <<>>]
    ELSE [toks |-> <<>>, diags |-> <<Diag("HND-LEX-0001", li)>>]

\* lexer.py 130-235: one iteration of `for li, raw in enumerate(lines, start=1)`
LexLine ==
    /\ lex_pc = "lines"
    /\ lex_li <= Len(src_lines)
    /\ LET line == src_lines[lex_li]
       IN  IF line.text = "blank"
           THEN /\ tokens' = Append(tokens, Token("NEWLINE", lex_li))
                /\ UNCHANGED <<indent_stack, lex_diags>>
           ELSE LET ind  == IndentStep(line.indent, indent_stack, lex_li)
                    body == LineBody(line.text, lex_li)
                IN  /\ indent_stack' = ind.stack
                    /\ tokens' = tokens \o ind.toks \o body.toks
                                         \o <<Token("NEWLINE", lex_li)>>
                    /\ lex_diags' = lex_diags \o ind.diags \o body.diags
    /\ lex_li' = lex_li + 1
    /\ lex_pc' = IF lex_li = Len(src_lines) THEN "eof" ELSE "lines"
    /\ UNCHANGED src_lines
    /\ UNCHANGED nonLexVars

\* lexer.py 237-239: one iteration of `while len(indent_stack) > 1`
LexEofDedent ==
    /\ lex_pc = "eof"
    /\ Len(indent_stack) > 1
    /\ indent_stack' = SubSeq(indent_stack, 1, Len(indent_stack) - 1)
    /\ tokens' = Append(tokens, Token("DEDENT", Len(src_lines)))
    /\ UNCHANGED <<src_lines, lex_li, lex_diags, lex_pc>>
    /\ UNCHANGED nonLexVars

\* mutant: EOF is appended while levels are still open
LexEof_Early ==
    /\ lex_pc = "eof"
    /\ Len(indent_stack) <= 2
    /\ tokens' = Append(tokens, Token("EOF", Len(src_lines) + 1))
    /\ lex_pc' = "done"
    /\ UNCHANGED <<src_lines, lex_li, indent_stack, lex_diags>>
    /\ UNCHANGED nonLexVars

\* lexer.py 241-242: the final EOF token and the return
LexEof ==
    /\ lex_pc = "eof"
    /\ ~(Len(indent_stack) > 1)
    /\ tokens' = Append(tokens, Token("EOF", Len(src_lines) + 1))
    /\ lex_pc' = "done"
    /\ UNCHANGED <<src_lines, lex_li, indent_stack, lex_diags>>
    /\ UNCHANGED nonLexVars

\* the lexer before any call
IdleLex ==
    /\ src_lines = <<>>
    /\ lex_li = 0
    /\ indent_stack = <<>>
    /\ tokens = <<>>
    /\ lex_diags = <<>>
    /\ lex_pc = "idle"

MaxLines == 4

IndentChoices == {0, 1, 2, 4, 5, 8}

LineChoices ==
    {SrcLine(n, "stmt") : n \in IndentChoices}
    \cup {SrcLine(0, "blank"), SrcLine(4, "junk")}

\* text.split("\n") never yields an empty list
Sources == SeqsUpTo(LineChoices, MaxLines) \ {<<>>}

(***************************************************************************)
(* capabilities.py                                                         *)
(***************************************************************************)
CANON_CAPS ==
    {"compute", "io.read", "io.write", "fs.read", "fs.write", "net", "env", "crypto"}

Levels == 1..4

\* POLICY[L].allowed_without_approval
PolicyAllowedWithout(L) ==
    CASE L = 1 -> {"compute"}
      [] L = 2 -> {"compute", "io.write"}
      [] L = 3 -> {"compute", "io.read", "io.write"}
      [] L = 4 -> {"compute", "io.read", "io.write", "fs.read"}

\* mutant: level 3 also asks approval for env, which it denies
PolicyAllowedWith_EnvAtL3(L) ==
    CASE L = 1 -> {}
      [] L = 2 -> {"io.read"}
      [] L = 3 -> {"fs.read", "fs.write", "net", "env"}
      [] L = 4 -> {"fs.write", "net", "env", "crypto"}

\* POLICY[L].allowed_with_approval
PolicyAllowedWith(L) ==
    CASE L = 1 -> {}
      [] L = 2 -> {"io.read"}
      [] L = 3 -> {"fs.read", "fs.write", "net"}
      [] L = 4 -> {"fs.write", "net", "env", "crypto"}

\* mutant: level 4 denies net
PolicyDenied_NetAtL4(L) ==
    CASE L = 1 -> CANON_CAPS \ {"compute"}
      [] L = 2 -> CANON_CAPS \ {"compute", "io.write", "io.read"}
      [] L = 3 -> CANON_CAPS \ {"compute", "io.read", "io.write", "fs.read", "fs.write", "net"}
      [] L = 4 -> {"net"}

\* POLICY[L].denied
PolicyDenied(L) ==
    CASE L = 1 -> CANON_CAPS \ {"compute"}
      [] L = 2 -> CANON_CAPS \ {"compute", "io.write", "io.read"}
      [] L = 3 -> CANON_CAPS \ {"compute", "io.read", "io.write", "fs.read", "fs.write", "net"}
      [] L = 4 -> {}

EFFECTS ==
    {"io.show", "io.ask", "contract.verify", "control.return", "fs.read",
     "fs.write", "net.request", "env.read", "crypto.use"}

\* EFFECT_TO_CAP.get(ef): the capability of an effect, "" for an unknown effect
EffectToCap(ef) ==
    CASE ef = "io.show"         -> "io.write"
      [] ef = "io.ask"          -> "io.read"
      [] ef = "contract.verify" -> "compute"
      [] ef = "control.return"  -> "compute"
      [] ef = "fs.read"         -> "fs.read"
      [] ef = "fs.write"        -> "fs.write"
      [] ef = "net.request"     -> "net"
      [] ef = "env.read"        -> "env"
      [] ef = "crypto.use"      -> "crypto"
      [] OTHER                  -> ""

caps_required_for_effects(effects) ==
    {"compute"} \cup {EffectToCap(ef) : ef \in {e \in effects : EffectToCap(e) # ""}}

(***************************************************************************)
(* The IR (HAND-IR v0.1) as far as enforcement reads it                    *)
(***************************************************************************)
NoExpr == [kind |-> "none", callee |-> "", args |-> <<>>]
LitExpr == [kind |-> "lit", callee |-> "", args |-> <<>>]
VarExpr == [kind |-> "var", callee |-> "", args |-> <<>>]
CallExpr(callee, args) == [kind |-> "call", callee |-> callee, args |-> args]
UnaryExpr(e) == [kind |-> "unary", callee |-> "", args |-> <<e>>]
BinaryExpr(l, r) == [kind |-> "binary", callee |-> "", args |-> <<l, r>>]

IrStmt(kind, effects, value, cond, then, else, body) ==
    [kind |-> kind, effects |-> effects, value |-> value, cond |-> cond,
     then |-> then, else |-> else, body |-> body]

IrLeaf(kind, effects, value) == IrStmt(kind, effects, value, NoExpr, <<>>, <<>>, <<>>)

RECURSIVE SeqUnion(_)
SeqUnion(sets) ==
    IF sets = <<>> THEN {} ELSE Head(sets) \cup SeqUnion(Tail(sets))

RECURSIVE collect_required_caps_from_expr(_)
collect_required_caps_from_expr(expr) ==
    IF expr.kind = "none" THEN {"compute"}
    ELSE {"compute"}
         \cup (IF expr.kind = "call" /\ expr.callee = "ask" THEN {"io.read"} ELSE {})
         \cup (IF expr.kind \in {"call", "unary", "binary"}
               THEN SeqUnion([i \in 1..Len(expr.args) |->
                                 collect_required_caps_from_expr(expr.args[i])])
               ELSE {})

RECURSIVE collect_required_caps_from_stmt(_)
collect_required_caps_from_stmt(stmt) ==
    {"compute"}
    \cup caps_required_for_effects(stmt.effects)
    \cup collect_required_caps_from_expr(stmt.value)
    \cup collect_required_caps_from_expr(stmt.cond)
    \cup SeqUnion([i \in 1..Len(stmt.then) |-> collect_required_caps_from_stmt(stmt.then[i])])
    \cup SeqUnion([i \in 1..Len(stmt.else) |-> collect_required_caps_from_stmt(stmt.else[i])])
    \cup SeqUnion([i \in 1..Len(stmt.body) |-> collect_required_caps_from_stmt(stmt.body[i])])

required_caps_for_function(fn) ==
    {"compute"}
    \cup SeqUnion([i \in 1..Len(fn.body) |-> collect_required_caps_from_stmt(fn.body[i])])
    \cup caps_required_for_effects(fn.effects)

required_caps_for_module(m) ==
    {"compute"}
    \cup SeqUnion([i \in 1..Len(m.toplevel) |-> collect_required_caps_from_stmt(m.toplevel[i])])
    \cup SeqUnion([i \in 1..Len(m.functions) |-> required_caps_for_function(m.functions[i])])

\* sorted(...) of a set of capability names: Python orders str by code point
CapOrder ==
    <<"compute", "crypto", "env", "fs.read", "fs.write", "io.read", "io.write", "net">>

\* mutant: the required capabilities are visited in descending order
RECURSIVE SortedDownFrom(_, _)
SortedDownFrom(S, i) ==
    IF i < 1 THEN <<>>
    ELSE (IF CapOrder[i] \in S THEN <<CapOrder[i]>> ELSE <<>>) \o SortedDownFrom(S, i - 1)

SortedCaps_Descending(S) == SortedDownFrom(S, Len(CapOrder))

RECURSIVE SortedFrom(_, _)
SortedFrom(S, i) ==
    IF i > Len(CapOrder) THEN <<>>
    ELSE (IF CapOrder[i] \in S THEN <<CapOrder[i]>> ELSE <<>>) \o SortedFrom(S, i + 1)

SortedCaps(S) == SortedFrom(S, 1)

(***************************************************************************)
(* enforce.py: enforce_capabilities                                        *)
(***************************************************************************)
NoIR == [capabilities |-> {}, toplevel |-> <<>>, functions |-> <<>>, origin |-> "none"]

CapDiagnostic(code, cap, origin) ==
    [code |-> code, severity |-> "fatal", cap |-> cap, origin_ref |-> origin]

\* declared_mod = set(normalize_caps(mod.get("capabilities"))); declared_mod.add("compute")
DeclaredMod(m) == m.capabilities \cup {"compute"}

\* declared_fn = set(normalize_caps(fn.get("capabilities"))); declared_fn.add("compute")
DeclaredFn(fn) == fn.capabilities \cup {"compute"}

\* mutant: the approvals set is not consulted
check_cap_IgnoresApprovals(cap, L, A) ==
    IF cap \in PolicyDenied(L) THEN "HND-CAP-0101"
    ELSE IF cap \in PolicyAllowedWith(L) THEN "HND-CAP-0102"
    ELSE ""

\* check_cap(cap, origin): the code it fails with, "" when it returns
check_cap(cap, L, A) ==
    IF cap \in PolicyDenied(L) THEN "HND-CAP-0101"
    ELSE IF cap \in PolicyAllowedWith(L) /\ cap \notin A THEN "HND-CAP-0102"
    ELSE ""

\* for cap in sorted(required): check_cap(cap, origin) -- the first failure, if any
RECURSIVE FirstPolicyFailure(_, _, _)
FirstPolicyFailure(caps, L, A) ==
    IF caps = <<>> THEN [code |-> "", cap |-> ""]
    ELSE IF check_cap(Head(caps), L, A) # ""
         THEN [code |-> check_cap(Head(caps), L, A), cap |-> Head(caps)]
         ELSE FirstPolicyFailure(Tail(caps), L, A)

\* the capabilities the loop has handed to check_cap when it fails on `cap`
RECURSIVE VisitedUntil(_, _)
VisitedUntil(caps, cap) ==
    IF caps = <<>> THEN <<>>
    ELSE IF Head(caps) = cap THEN <<cap>>
    ELSE <<Head(caps)>> \o VisitedUntil(Tail(caps), cap)

\* fail(code, msg, remediation, origin): raise CapabilityError(CapDiagnostic(...))
Fail(code, cap, origin) ==
    /\ raised' = Append(raised, CapDiagnostic(code, cap, origin))
    /\ enf_pc' = "failed"
    /\ UNCHANGED <<enf_k, enf_fn, cap_diags, returned>>

\* enforce.py 103-110: the loop over the declared module capabilities.  The
\* iteration order of a Python set of str is not fixed, so which unknown
\* capability is reported is a free choice.
EnfCheckDeclared ==
    /\ enf_pc = "declared"
    /\ LET unknown == DeclaredMod(ir) \ CANON_CAPS
       IN  IF unknown # {}
           THEN /\ \E c \in unknown : Fail("HND-CAP-0001", c, ir.origin)
                /\ UNCHANGED checked
           ELSE /\ enf_pc' = "missing"
                /\ UNCHANGED <<enf_k, enf_fn, checked, raised, cap_diags, returned>>
    /\ UNCHANGED <<ir, supervision_level, approvals, scope>>
    /\ UNCHANGED nonCapVars

\* enforce.py 112-121
EnfCheckMissing ==
    /\ enf_pc = "missing"
    /\ LET missing == SortedCaps(required_caps_for_module(ir) \ DeclaredMod(ir))
       IN  IF missing # <<>>
           THEN Fail("HND-CAP-0201", missing[1], ir.origin) /\ UNCHANGED checked
           ELSE /\ enf_pc' = "policy"
                /\ enf_k' = 1
                /\ UNCHANGED <<enf_fn, checked, raised, cap_diags, returned>>
    /\ UNCHANGED <<ir, supervision_level, approvals, scope>>
    /\ UNCHANGED nonCapVars

\* enforce.py 139-140: one iteration of `for cap in sorted(required_all)`
EnfCheckCap ==
    /\ enf_pc = "policy"
    /\ LET req == SortedCaps(required_caps_for_module(ir))
       IN  /\ enf_k <= Len(req)
           /\ checked' = Append(checked, req[enf_k])
           /\ LET code == check_cap(req[enf_k], supervision_level, approvals)
              IN  IF code # ""
                  THEN Fail(code, req[enf_k], ir.origin)
                  ELSE /\ enf_k' = enf_k + 1
                       /\ UNCHANGED <<enf_pc, enf_fn, raised, cap_diags, returned>>
    /\ UNCHANGED <<ir, supervision_level, approvals, scope>>
    /\ UNCHANGED nonCapVars

\* enforce.py 142: the policy loop is over; function scope goes on to the functions
EnfPolicyDone ==
    /\ enf_pc = "policy"
    /\ enf_k > Len(SortedCaps(required_caps_for_module(ir)))
    /\ enf_pc' = IF scope = "function" THEN "functions" ELSE "return"
    /\ enf_fn' = 1
    /\ UNCHANGED <<enf_k, checked, raised, cap_diags, returned>>
    /\ UNCHANGED <<ir, supervision_level, approvals, scope>>
    /\ UNCHANGED nonCapVars

\* mutant: the missing declarations of a function are looked at before its
\* unknown ones
EnfCheckFunction_MissingFirst ==
    /\ enf_pc = "functions"
    /\ enf_fn <= Len(ir.functions)
    /\ LET fn       == ir.functions[enf_fn]
           unknown  == DeclaredFn(fn) \ CANON_CAPS
           required == required_caps_for_function(fn)
           missing  == SortedCaps(required \ DeclaredFn(fn))
           pol      == FirstPolicyFailure(SortedCaps(required), supervision_level, approvals)
       IN  IF missing # <<>>
           THEN Fail("HND-CAP-0202", missing[1], fn.origin) /\ UNCHANGED checked
           ELSE IF unknown # {}
           THEN /\ \E c \in unknown : Fail("HND-CAP-0001", c, fn.origin)
                /\ UNCHANGED checked
           ELSE IF pol.code # ""
           THEN /\ Fail(pol.code, pol.cap, fn.origin)
                /\ checked' = checked \o VisitedUntil(SortedCaps(required), pol.cap)
           ELSE /\ enf_fn' = enf_fn + 1
                /\ checked' = checked \o SortedCaps(required)
                /\ UNCHANGED <<enf_pc, enf_k, raised, cap_diags, returned>>
    /\ UNCHANGED <<ir, supervision_level, approvals, scope>>
    /\ UNCHANGED nonCapVars

\* enforce.py 143-165: one iteration of `for fn in mod.get("functions")`
EnfCheckFunction ==
    /\ enf_pc = "functions"
    /\ enf_fn <= Len(ir.functions)
    /\ LET fn       == ir.functions[enf_fn]
           unknown  == DeclaredFn(fn) \ CANON_CAPS
           required == required_caps_for_function(fn)
           missing  == SortedCaps(required \ DeclaredFn(fn))
           pol      == FirstPolicyFailure(SortedCaps(required), supervision_level, approvals)
       IN  IF unknown # {}
           THEN /\ \E c \in unknown : Fail("HND-CAP-0001", c, fn.origin)
                /\ UNCHANGED checked
           ELSE IF missing # <<>>
           THEN Fail("HND-CAP-0202", missing[1], fn.origin) /\ UNCHANGED checked
           ELSE IF pol.code # ""
           THEN /\ Fail(pol.code, pol.cap, fn.origin)
                /\ checked' = checked \o VisitedUntil(SortedCaps(required), pol.cap)
           ELSE /\ enf_fn' = enf_fn + 1
                /\ checked' = checked \o SortedCaps(required)
                /\ UNCHANGED <<enf_pc, enf_k, raised, cap_diags, returned>>
    /\ UNCHANGED <<ir, supervision_level, approvals, scope>>
    /\ UNCHANGED nonCapVars

EnfFunctionsDone ==
    /\ enf_pc = "functions"
    /\ enf_fn > Len(ir.functions)
    /\ enf_pc' = "return"
    /\ UNCHANGED <<enf_k, enf_fn, checked, raised, cap_diags, returned>>
    /\ UNCHANGED <<ir, supervision_level, approvals, scope>>
    /\ UNCHANGED nonCapVars

\* enforce.py 167: return ir, diags
EnfReturn ==
    /\ enf_pc = "return"
    /\ returned' = ir
    /\ enf_pc' = "done"
    /\ UNCHANGED <<enf_k, enf_fn, checked, raised, cap_diags>>
    /\ UNCHANGED <<ir, supervision_level, approvals, scope>>
    /\ UNCHANGED nonCapVars

\* enforce.py 79-91: enforce_capabilities is called again on the IR it has
\* accepted, with the same approvals and scope and a higher supervision_level
EnfCallAtHigherLevel ==
    /\ enf_pc = "done"
    /\ rr_level = 0
    /\ \E L \in Levels :
          /\ L > supervision_level
          /\ supervision_level' = L
    /\ rr_level' = supervision_level
    /\ enf_pc' = "declared"
    /\ enf_k' = 0
    /\ enf_fn' = 0
    /\ checked' = <<>>
    /\ raised' = <<>>
    /\ cap_diags' = <<>>
    /\ returned' = NoIR
    /\ UNCHANGED <<ir, approvals, scope>>
    /\ UNCHANGED <<lexVars, tcVars, parseVars, rtVars, orVars, middleVars, fmVars>>

\* no earlier call
IdleRr == rr_level = 0

(***************************************************************************)
(* Inputs of the enforcer                                                  *)
(***************************************************************************)
MaxTop == 1

StmtAssign == IrLeaf("assign", {}, LitExpr)
StmtShow   == IrLeaf("show", {"io.show"}, LitExpr)
StmtAsk    == IrLeaf("assign", {}, CallExpr("ask", <<LitExpr>>))
StmtNet    == IrLeaf("expr", {"net.request"}, LitExpr)
StmtEnv    == IrLeaf("expr", {"env.read", "contract.verify"}, UnaryExpr(LitExpr))
StmtIf     == IrStmt("if", {}, NoExpr,
                     BinaryExpr(VarExpr, CallExpr("f", <<CallExpr("ask", <<LitExpr>>)>>)),
                     <<StmtShow>>, <<StmtAssign>>, <<>>)
StmtWhile  == IrStmt("while", {}, NoExpr, VarExpr, <<>>, <<>>, <<StmtEnv, StmtNet>>)

StmtPool == {StmtAssign, StmtShow, StmtAsk, StmtNet, StmtIf, StmtWhile}

IrFn(name, caps, effects, body) ==
    [name |-> name, capabilities |-> caps, effects |-> effects, body |-> body,
     origin |-> name]

\* h lacks io.read and io.write; m declares a non-canonical name and lacks io.write
FnH == IrFn("h", {"compute"}, {"io.show"}, <<StmtIf>>)
FnM == IrFn("m", {"io"}, {"io.show"}, <<StmtShow>>)

FnPool ==
    { IrFn("f", {}, {}, <<StmtAssign>>),
      IrFn("g", {"compute", "io.write"}, {"io.show"}, <<StmtShow>>),
      FnH }

FnSeqs == {<<>>} \cup {<<f>> : f \in FnPool} \cup {<<FnM, FnH>>}

DeclaredChoices ==
    (SUBSET {"io.read", "io.write", "net", "env"})
    \cup {{"compute", "io.writ"}, {"io", "io.read", "io.write", "net", "env"}}

ApprovalChoices == {{}, {"io.read"}, {"net"}, {"io.read", "net", "env"}}

IrModules ==
    { [capabilities |-> d, toplevel |-> t, functions |-> f, origin |-> "module"] :
        d \in DeclaredChoices, t \in SeqsUpTo(StmtPool, MaxTop), f \in FnSeqs }

\* the enforcer before any call
IdleCap ==
    /\ ir = NoIR
    /\ supervision_level = 1
    /\ approvals = {}
    /\ scope = "module"
    /\ enf_pc = "idle"
    /\ enf_k = 0
    /\ enf_fn = 0
    /\ checked = <<>>
    /\ raised = <<>>
    /\ cap_diags = <<>>
    /\ returned = NoIR

(***************************************************************************)
(* ast.py: the syntax tree shared by typechecker, lowering and interpreter *)
(***************************************************************************)
\* runtime values, tagged with the name of their Python type; the number of
\* a bool is 1 for True and 0 for False, a str is its list of characters
IntV(n)  == [t |-> "int", n |-> n, s |-> <<>>]
BoolV(b) == [t |-> "bool", n |-> IF b THEN 1 ELSE 0, s |-> <<>>]
StrV(cs) == [t |-> "str", n |-> 0, s |-> cs]
NoneV    == [t |-> "NoneType", n |-> 0, s |-> <<>>]

\* expressions
Literal(kind, value) ==
    [node |-> "Literal", kind |-> kind, value |-> value, name |-> "",
     op |-> "", args |-> <<>>]
Var(name) ==
    [node |-> "Var", kind |-> "", value |-> NoneV, name |-> name,
     op |-> "", args |-> <<>>]
Unary(op, e) ==
    [node |-> "Unary", kind |-> "", value |-> NoneV, name |-> "",
     op |-> op, args |-> <<e>>]
Binary(l, op, r) ==
    [node |-> "Binary", kind |-> "", value |-> NoneV, name |-> "",
     op |-> op, args |-> <<l, r>>]
Call(callee, args) ==
    [node |-> "Call", kind |-> "", value |-> NoneV, name |-> callee,
     op |-> "", args |-> args]
Paren(e) ==
    [node |-> "Paren", kind |-> "", value |-> NoneV, name |-> "",
     op |-> "", args |-> <<e>>]
\* an absent expression (ReturnStmt.value is None)
NoneExpr ==
    [node |-> "None", kind |-> "", value |-> NoneV, name |-> "",
     op |-> "", args |-> <<>>]

\* type expressions
TypeName(name)   == [te |-> "TypeName", name |-> name, args |-> <<>>]
TypeOptional(inner) == [te |-> "TypeOptional", name |-> "", args |-> <<inner>>]
TypeApp(base, args) == [te |-> "TypeApp", name |-> base, args |-> args]
NoTypeExpr       == [te |-> "None", name |-> "", args |-> <<>>]

Param(name, type) == [name |-> name, type |-> type]

\* statements and top-level items; no_else is `else_body is None`
Stmt(node, name, declared_type, value, then_body, else_body, no_else, params) ==
    [node |-> node, name |-> name, declared_type |-> declared_type,
     value |-> value, then_body |-> then_body, else_body |-> else_body,
     no_else |-> no_else, params |-> params]

AssignStmt(name, declared_type, value) ==
    Stmt("AssignStmt", name, declared_type, value, <<>>, <<>>, TRUE, <<>>)
ShowStmt(value)   == Stmt("ShowStmt", "", NoTypeExpr, value, <<>>, <<>>, TRUE, <<>>)
ExprStmt(expr)    == Stmt("ExprStmt", "", NoTypeExpr, expr, <<>>, <<>>, TRUE, <<>>)
VerifyStmt(expr)  == Stmt("VerifyStmt", "", NoTypeExpr, expr, <<>>, <<>>, TRUE, <<>>)
ReturnStmt(value) == Stmt("ReturnStmt", "", NoTypeExpr, value, <<>>, <<>>, TRUE, <<>>)
IfStmt(cond, then_body) ==
    Stmt("IfStmt", "", NoTypeExpr, cond, then_body, <<>>, TRUE, <<>>)
IfElseStmt(cond, then_body, else_body) ==
    Stmt("IfStmt", "", NoTypeExpr, cond, then_body, else_body, FALSE, <<>>)
WhileStmt(cond, body) ==
    Stmt("WhileStmt", "", NoTypeExpr, cond, body, <<>>, TRUE, <<>>)
\* FuncDef: declared_type is the return type, then_body the body
FuncDef(name, params, return_type, body) ==
    Stmt("FuncDef", name, return_type, NoneExpr, body, <<>>, TRUE, params)
\* Section: then_body is the body
Section(body) ==
    Stmt("Section", "", NoTypeExpr, NoneExpr, body, <<>>, TRUE, <<>>)

(***************************************************************************)
(* types.py                                                                *)
(***************************************************************************)
Prim(name)    == [k |-> "Prim", name |-> name, args |-> <<>>]
INT   == Prim("Int")
FLOAT == Prim("Float")
BOOL  == Prim("Bool")
TEXT  == Prim("Text")
NULL  == Prim("Null")
ANY   == [k |-> "Any", name |-> "", args |-> <<>>]
NEVER == [k |-> "Never", name |-> "", args |-> <<>>]
OptionalT(inner)  == [k |-> "Optional", name |-> "", args |-> <<inner>>]
ListT(elem)       == [k |-> "List", name |-> "", args |-> <<elem>>]
MapT(key, val)    == [k |-> "Map", name |-> "", args |-> <<key, val>>]
RecordT(name)     == [k |-> "Record", name |-> name, args |-> <<>>]
ResultT(ok, err)  == [k |-> "Result", name |-> "", args |-> <<ok, err>>]
\* `None` where a type is optional (current_return)
NoType == [k |-> "None", name |-> "", args |-> <<>>]

is_optional(t) == t.k = "Optional"

make_optional(t) == IF is_optional(t) THEN t ELSE OptionalT(t)

RECURSIVE assignable(_, _)
assignable(src, dst) ==
    IF dst.k = "Any" \/ src.k = "Any" THEN TRUE
    ELSE IF src.k = "Never" THEN TRUE
    ELSE IF src = dst THEN TRUE
    ELSE IF src = NULL /\ is_optional(dst) THEN TRUE
    ELSE IF is_optional(dst) /\ assignable(src, dst.args[1]) THEN TRUE
    ELSE FALSE

RECURSIVE join(_, _)
join(a, b) ==
    IF a = b THEN a
    ELSE IF a.k = "Any" \/ b.k = "Any" THEN ANY
    ELSE IF a = NULL THEN make_optional(b)
    ELSE IF b = NULL THEN make_optional(a)
    ELSE IF is_optional(a) /\ ~is_optional(b) THEN OptionalT(join(a.args[1], b))
    ELSE IF is_optional(b) /\ ~is_optional(a) THEN OptionalT(join(a, b.args[1]))
    ELSE ANY

(***************************************************************************)
(* typecheck.py: Env                                                       *)
(***************************************************************************)
Binding(typ, proven_non_null) == [typ |-> typ, proven_non_null |-> proven_non_null]

EmptyFrame == [n \in {} |-> Binding(ANY, FALSE)]

\* dict.update: the entries of `inner` replace or extend those of `outer`
FrameUpdate(outer, inner) ==
    [n \in DOMAIN outer \cup DOMAIN inner |->
        IF n \in DOMAIN inner THEN inner[n] ELSE outer[n]]

\* Env.get: the index of the nearest frame that binds name, 0 for None
RECURSIVE EnvFrameOf(_, _)
EnvFrameOf(frames, name) ==
    IF frames = <<>> THEN 0
    ELSE IF name \in DOMAIN frames[Len(frames)] THEN Len(frames)
    ELSE EnvFrameOf(SubSeq(frames, 1, Len(frames) - 1), name)

EnvBound(frames, name) == EnvFrameOf(frames, name) # 0

EnvGet(frames, name) == frames[EnvFrameOf(frames, name)][name]

EnvPush(frames) == Append(frames, EmptyFrame)

EnvPop(frames) == SubSeq(frames, 1, Len(frames) - 1)

EnvSet(frames, name, typ) ==
    [frames EXCEPT ![Len(frames)] =
        FrameUpdate(@, [n \in {name} |-> Binding(typ, FALSE)])]

refine_non_null(frames, name) ==
    IF ~EnvBound(frames, name) THEN frames
    ELSE [frames EXCEPT ![EnvFrameOf(frames, name)][name].proven_non_null = TRUE]

\* Env.current_type, for a bound name
current_type(frames, name) ==
    LET b == EnvGet(frames, name)
    IN  IF b.proven_non_null /\ is_optional(b.typ) THEN b.typ.args[1] ELSE b.typ

(***************************************************************************)
(* typecheck.py: TypeChecker                                               *)
(***************************************************************************)
\* the result of type_of_expr / lower_typeexpr: the type and the codes of
\* the errors it reported, in order
Typed(typ, errs) == [typ |-> typ, errs |-> errs]

Numeric(t) == t = INT \/ t = FLOAT

RECURSIVE type_of_expr(_, _)
RECURSIVE ArgErrs(_, _)
ArgErrs(args, frames) ==
    IF args = <<>> THEN <<>>
    ELSE type_of_expr(Head(args), frames).errs \o ArgErrs(Tail(args), frames)

type_of_expr(e, frames) ==
    CASE e.node = "Literal" ->
           Typed(CASE e.kind = "Int" -> INT
                   [] e.kind = "Float" -> FLOAT
                   [] e.kind = "Bool" -> BOOL
                   [] e.kind = "Text" -> TEXT
                   [] e.kind = "Null" -> NULL
                   [] OTHER -> ANY, <<>>)
      [] e.node = "Var" ->
           IF ~EnvBound(frames, e.name)
           THEN Typed(ANY, <<"HND-TC-0101">>)
           ELSE Typed(current_type(frames, e.name), <<>>)
      [] e.node = "Paren" -> type_of_expr(e.args[1], frames)
      [] e.node = "Unary" ->
           LET t == type_of_expr(e.args[1], frames)
           IN  IF e.op = "-"
               THEN IF Numeric(t.typ) THEN t
                    ELSE Typed(ANY, Append(t.errs, "HND-TC-0201"))
               ELSE Typed(ANY, Append(t.errs, "HND-TC-0200"))
      [] e.node = "Binary" ->
           LET lt == type_of_expr(e.args[1], frames)
               rt == type_of_expr(e.args[2], frames)
               errs == lt.errs \o rt.errs
           IN  IF e.op \in {"+", "-", "*", "/", "%"}
               THEN IF Numeric(lt.typ) /\ Numeric(rt.typ)
                    THEN IF lt.typ = FLOAT \/ rt.typ = FLOAT \/ e.op = "/"
                         THEN Typed(FLOAT, errs) ELSE Typed(INT, errs)
                    ELSE IF e.op = "+" /\ lt.typ = TEXT /\ rt.typ = TEXT
                    THEN Typed(TEXT, errs)
                    ELSE Typed(ANY, Append(errs, "HND-TC-0202"))
               ELSE IF e.op \in {"==", "!="} THEN Typed(BOOL, errs)
               ELSE IF e.op \in {"<", "<=", ">", ">="}
               THEN IF Numeric(lt.typ) /\ Numeric(rt.typ)
                    THEN Typed(BOOL, errs)
                    ELSE Typed(BOOL, Append(errs, "HND-TC-0203"))
               ELSE Typed(ANY, Append(errs, "HND-TC-0200"))
      [] e.node = "Call" ->
           IF e.name = "len"
           THEN IF Len(e.args) # 1 THEN Typed(INT, <<"HND-TC-0301">>)
                ELSE Typed(INT, type_of_expr(e.args[1], frames).errs)
           ELSE IF e.name = "ok"
           THEN IF Len(e.args) # 1 THEN Typed(ANY, <<"HND-TC-0302">>)
                ELSE LET ot == type_of_expr(e.args[1], frames)
                     IN  Typed(ResultT(ot.typ, TEXT), ot.errs)
           ELSE IF e.name = "err"
           THEN IF Len(e.args) # 1 THEN Typed(ANY, <<"HND-TC-0303">>)
                ELSE LET et == type_of_expr(e.args[1], frames)
                     IN  Typed(ResultT(ANY, et.typ), et.errs)
           ELSE Typed(ANY, <<"HND-TC-0300">> \o ArgErrs(e.args, frames))
      [] OTHER -> Typed(ANY, <<>>)

RECURSIVE lower_typeexpr(_)
RECURSIVE LowerTypeArgs(_)
LowerTypeArgs(args) ==
    IF args = <<>> THEN Typed(<<>>, <<>>)
    ELSE LET h == lower_typeexpr(Head(args))
             r == LowerTypeArgs(Tail(args))
         IN  Typed(<<h.typ>> \o r.typ, h.errs \o r.errs)

lower_typeexpr(te) ==
    CASE te.te = "TypeName" ->
           Typed(IF te.name \in {"Int", "Float", "Bool", "Text", "Null"}
                 THEN Prim(te.name)
                 ELSE IF te.name = "Any" THEN ANY
                 ELSE IF te.name = "Never" THEN NEVER
                 ELSE RecordT(te.name), <<>>)
      [] te.te = "TypeOptional" ->
           LET it == lower_typeexpr(te.args[1])
           IN  Typed(OptionalT(it.typ), it.errs)
      [] te.te = "TypeApp" ->
           LET a == LowerTypeArgs(te.args)
               n == Len(a.typ)
               bad == Typed(ANY, Append(a.errs, "HND-TC-1001"))
           IN  IF te.name = "List"
               THEN IF n # 1 THEN bad ELSE Typed(ListT(a.typ[1]), a.errs)
               ELSE IF te.name = "Map"
               THEN IF n # 2 THEN bad ELSE Typed(MapT(a.typ[1], a.typ[2]), a.errs)
               ELSE IF te.name = "Result"
               THEN IF n # 2 THEN bad ELSE Typed(ResultT(a.typ[1], a.typ[2]), a.errs)
               ELSE IF te.name = "Record"
               THEN IF n # 1 THEN bad
                    ELSE IF te.args[1].te = "TypeName"
                    THEN Typed(RecordT(te.args[1].name), a.errs)
                    ELSE Typed(ANY, a.errs)
               ELSE Typed(ANY, a.errs)
      [] OTHER -> Typed(ANY, <<>>)

\* the checker's mutable state: env.frames, diags (codes) and current_return
TcState(frames, diags, current_return) ==
    [frames |-> frames, diags |-> diags, current_return |-> current_return]

\* mutant: the frames stay as the body left them
restore_env_Keeps(frames, snap) == frames

\* TypeChecker._restore_env: env.frames becomes a copy of the snapshot
restore_env(frames, snap) == snap

\* the names bound in any frame of a snapshot
RECURSIVE SnapNames(_)
SnapNames(snap) ==
    IF snap = <<>> THEN {}
    ELSE DOMAIN Head(snap) \cup SnapNames(Tail(snap))

\* TypeChecker._merge_env: the frames after the if
merge_env(before, then_env, else_env) ==
    LET names == SnapNames(then_env) \cup SnapNames(else_env)
        merged == [name \in names |->
            IF ~EnvBound(then_env, name)
            THEN Binding(EnvGet(else_env, name).typ, FALSE)
            ELSE IF ~EnvBound(else_env, name)
            THEN Binding(EnvGet(then_env, name).typ, FALSE)
            ELSE Binding(join(EnvGet(then_env, name).typ, EnvGet(else_env, name).typ),
                         FALSE)]
    IN  [before EXCEPT ![Len(before)] = FrameUpdate(@, merged)]

\* the variable a verify expression names when it has one of the two
\* recognised shapes, "" otherwise
IsNeqNull(expr) ==
    /\ expr.node = "Binary" /\ expr.op = "!="
    /\ expr.args[1].node = "Var"
    /\ expr.args[2].node = "Literal" /\ expr.args[2].kind = "Null"

RECURSIVE check_stmt(_, _)
RECURSIVE CheckStmts(_, _)
RECURSIVE SetParams(_, _)

\* `for s in block: self.check_stmt(s)`
CheckStmts(block, tc) ==
    IF block = <<>> THEN tc
    ELSE CheckStmts(Tail(block), check_stmt(Head(block), tc))

\* mutant: the block is checked in the environment the checker is in
check_block_with_env_KeepsEnv(block, snap, tc) ==
    LET r == CheckStmts(block, [tc EXCEPT !.frames = EnvPush(tc.frames)])
        inner == r.frames[Len(r.frames)]
        rest == EnvPop(r.frames)
    IN  [r EXCEPT !.frames =
            [rest EXCEPT ![Len(rest)] = FrameUpdate(@, inner)]]

\* TypeChecker._check_block_with_env
check_block_with_env(block, snap, tc) ==
    LET r == CheckStmts(block, [tc EXCEPT !.frames = EnvPush(snap)])
        inner == r.frames[Len(r.frames)]
        rest == EnvPop(r.frames)
    IN  [r EXCEPT !.frames =
            [rest EXCEPT ![Len(rest)] = FrameUpdate(@, inner)]]

\* typecheck.py 324-328: bind the parameters in the function's frame
SetParams(params, tc) ==
    IF params = <<>> THEN tc
    ELSE LET p == Head(params)
             pt == IF p.type = NoTypeExpr THEN Typed(ANY, <<>>)
                   ELSE lower_typeexpr(p.type)
         IN  SetParams(Tail(params),
                 [tc EXCEPT !.frames = EnvSet(tc.frames, p.name, pt.typ),
                            !.diags = @ \o pt.errs])

check_stmt(st, tc) ==
    CASE st.node = "AssignStmt" ->
           LET rhs == type_of_expr(st.value, tc.frames)
           IN  IF st.declared_type # NoTypeExpr
               THEN LET dt == lower_typeexpr(st.declared_type)
                    IN  [tc EXCEPT
                          !.diags = @ \o rhs.errs \o dt.errs \o
                              (IF assignable(rhs.typ, dt.typ) THEN <<>>
                               ELSE <<"HND-TC-1101">>),
                          !.frames = EnvSet(tc.frames, st.name, dt.typ)]
               ELSE [tc EXCEPT
                      !.diags = @ \o rhs.errs,
                      !.frames =
                          IF /\ EnvBound(tc.frames, st.name)
                             /\ is_optional(EnvGet(tc.frames, st.name).typ)
                             /\ rhs.typ = NULL
                          THEN EnvSet(tc.frames, st.name, EnvGet(tc.frames, st.name).typ)
                          ELSE EnvSet(tc.frames, st.name, rhs.typ)]
      [] st.node \in {"ShowStmt", "ExprStmt"} ->
           [tc EXCEPT !.diags = @ \o type_of_expr(st.value, tc.frames).errs]
      [] st.node = "VerifyStmt" ->
           LET expr == st.value
           IN  IF IsNeqNull(expr)
               THEN LET name == expr.args[1].name
                    IN  IF ~EnvBound(tc.frames, name)
                        THEN [tc EXCEPT !.diags = Append(@, "HND-TC-1201")]
                        ELSE IF ~is_optional(EnvGet(tc.frames, name).typ)
                        THEN tc
                        ELSE [tc EXCEPT !.frames = refine_non_null(tc.frames, name)]
               ELSE IF /\ expr.node = "Var"
                       /\ EnvBound(tc.frames, expr.name)
                       /\ is_optional(EnvGet(tc.frames, expr.name).typ)
               THEN [tc EXCEPT !.frames = refine_non_null(tc.frames, expr.name)]
               ELSE [tc EXCEPT !.diags = @ \o type_of_expr(expr, tc.frames).errs]
      [] st.node = "ReturnStmt" ->
           IF tc.current_return = NoType
           THEN IF st.value # NoneExpr
                THEN [tc EXCEPT !.diags = @ \o type_of_expr(st.value, tc.frames).errs]
                ELSE tc
           ELSE IF st.value = NoneExpr
           THEN IF tc.current_return = NULL \/ is_optional(tc.current_return)
                THEN tc
                ELSE [tc EXCEPT !.diags = Append(@, "HND-TC-1301")]
           ELSE LET rt == type_of_expr(st.value, tc.frames)
                IN  [tc EXCEPT !.diags = @ \o rt.errs \o
                        (IF assignable(rt.typ, tc.current_return) THEN <<>>
                         ELSE <<"HND-TC-1302">>)]
      [] st.node = "IfStmt" ->
           LET ct == type_of_expr(st.value, tc.frames)
               tc0 == [tc EXCEPT !.diags = @ \o ct.errs \o
                          (IF ct.typ # BOOL /\ ct.typ.k # "Any"
                           THEN <<"HND-TC-1401">> ELSE <<>>)]
               before == tc0.frames
               tc1 == check_block_with_env(st.then_body, before, tc0)
               tc2 == IF st.no_else THEN [tc1 EXCEPT !.frames = before]
                      ELSE check_block_with_env(st.else_body, before, tc1)
           IN  [tc2 EXCEPT !.frames = merge_env(before, tc1.frames, tc2.frames)]
      [] st.node = "WhileStmt" ->
           LET ct == type_of_expr(st.value, tc.frames)
               tc0 == [tc EXCEPT !.diags = @ \o ct.errs \o
                          (IF ct.typ # BOOL /\ ct.typ.k # "Any"
                           THEN <<"HND-TC-1501">> ELSE <<>>)]
               before == tc0.frames
               tc1 == check_block_with_env(st.then_body, before, tc0)
           IN  [tc1 EXCEPT !.frames = restore_env(tc1.frames, before)]
      [] st.node = "FuncDef" ->
           LET old_return == tc.current_return
               tc0 == SetParams(st.params, [tc EXCEPT !.frames = EnvPush(tc.frames)])
               rt == IF st.declared_type # NoTypeExpr
                     THEN lower_typeexpr(st.declared_type)
                     ELSE Typed(NoType, <<>>)
               tc1 == CheckStmts(st.then_body,
                          [tc0 EXCEPT !.current_return = rt.typ,
                                      !.diags = @ \o rt.errs])
           IN  [tc1 EXCEPT !.current_return = old_return,
                           !.frames = EnvPop(tc1.frames)]
      [] OTHER -> tc

(***************************************************************************)
(* typecheck.py: typecheck(program)                                        *)
(***************************************************************************)
\* typecheck.py 393-397: the body of a Section in a frame of its own
CheckSection(item, tc) ==
    IF item.then_body # <<>>
    THEN Bind(CheckStmts(item.then_body, [tc EXCEPT !.frames = EnvPush(tc.frames)]),
              LAMBDA b : [b EXCEPT !.frames = EnvPop(b.frames)])
    ELSE tc

\* one iteration of `for item in program.items` on a Section
TcSection ==
    /\ tc_pc = "items"
    /\ tc_i <= Len(tc_items)
    /\ tc_items[tc_i].node = "Section"
    /\ LET item == tc_items[tc_i]
           tc == TcState(tc_frames, tc_diags, tc_current_return)
           r == CheckSection(item, tc)
       IN  /\ tc_frames' = r.frames
           /\ tc_diags' = r.diags
           /\ tc_current_return' = r.current_return
    /\ tc_i' = tc_i + 1
    /\ UNCHANGED <<tc_items, tc_pc>>
    /\ UNCHANGED nonTcVars

\* one iteration of `for item in program.items` on a statement
TcStmt ==
    /\ tc_pc = "items"
    /\ tc_i <= Len(tc_items)
    /\ tc_items[tc_i].node # "Section"
    /\ LET r == check_stmt(tc_items[tc_i],
                           TcState(tc_frames, tc_diags, tc_current_return))
       IN  /\ tc_frames' = r.frames
           /\ tc_diags' = r.diags
           /\ tc_current_return' = r.current_return
    /\ tc_i' = tc_i + 1
    /\ UNCHANGED <<tc_items, tc_pc>>
    /\ UNCHANGED nonTcVars

\* typecheck.py 400: return tc.diags
TcReturn ==
    /\ tc_pc = "items"
    /\ tc_i > Len(tc_items)
    /\ tc_pc' = "done"
    /\ UNCHANGED <<tc_items, tc_i, tc_frames, tc_diags, tc_current_return>>
    /\ UNCHANGED nonTcVars

\* the typechecker before any call
IdleTc ==
    /\ tc_items = <<>>
    /\ tc_i = 0
    /\ tc_frames = <<>>
    /\ tc_diags = <<>>
    /\ tc_current_return = NoType
    /\ tc_pc = "idle"

(***************************************************************************)
(* Inputs of the typechecker                                               *)
(***************************************************************************)
MaxItems == 3

LitNull == Literal("Null", NoneV)
LitOne  == Literal("Int", IntV(1))
LitTrue == Literal("Bool", BoolV(TRUE))
XNeqNull == Binary(Var("x"), "!=", LitNull)

TcDeclOptX   == AssignStmt("x", TypeOptional(TypeName("Int")), LitNull)
TcAssignX    == AssignStmt("x", NoTypeExpr, LitOne)
TcAssignNull == AssignStmt("x", NoTypeExpr, LitNull)
TcDeclY      == AssignStmt("y", TypeName("Int"), LitOne)
TcVerifyNeq  == VerifyStmt(XNeqNull)
TcVerifyVar  == VerifyStmt(Var("x"))
TcVerifyEq   == VerifyStmt(Binary(Var("x"), "==", LitNull))
TcVerifyY    == VerifyStmt(Binary(Var("y"), "!=", LitNull))
TcUseX       == ShowStmt(Binary(Var("x"), "+", LitOne))
TcIfPlain    == IfStmt(LitTrue, <<ShowStmt(LitOne)>>)
TcIfElse     == IfElseStmt(Binary(Var("x"), "==", LitNull),
                           <<TcAssignX>>, <<TcVerifyNeq, TcDeclY>>)
TcWhile      == WhileStmt(LitTrue, <<TcVerifyVar, TcUseX, TcAssignX, TcDeclY>>)
TcIfRefine   == IfElseStmt(LitTrue, <<TcVerifyNeq>>, <<TcUseX>>)
TcFuncOuter  == FuncDef("g", <<>>, NoTypeExpr, <<TcVerifyNeq>>)
TcFunc       == FuncDef("f", <<Param("y", TypeOptional(TypeName("Int")))>>,
                        TypeName("Int"),
                        <<VerifyStmt(Var("y")), ReturnStmt(Var("y"))>>)
TcSec        == Section(<<TcDeclOptX, TcVerifyNeq, TcUseX>>)

TcItemPool ==
    {TcDeclOptX, TcAssignX, TcAssignNull, TcDeclY, TcVerifyNeq, TcVerifyVar,
     TcVerifyEq, TcVerifyY, TcUseX, TcIfPlain, TcIfElse, TcWhile, TcFunc, TcSec,
     TcIfRefine, TcFuncOuter}

TcPrograms == SeqsUpTo(TcItemPool, MaxItems)

TcNames == {"x", "y"}

(***************************************************************************)
(* handc_interpreter_v0_1 parser.py: Parser                                *)
(***************************************************************************)
\* a token as the parser reads it; its position is its index in the list
Tok(kind, value) == [kind |-> kind, value |-> value]

\* a parser diagnostic: its code and the index of the token it points at
PDiag(code, pos) == [code |-> code, pos |-> pos]

\* the parser's mutable fields: the 0-based cursor i and the diagnostics;
\* skipped records the indices the cursor was moved past by error recovery
PState(i, diags, skipped) == [i |-> i, diags |-> diags, skipped |-> skipped]

\* the result of a parse method: the parser afterwards and the node built
R(p, node) == [p |-> p, node |-> node]

\* 1-based index of the token _at() returns
AtIdx(p) == IF p.i >= Len(ptoks) THEN Len(ptoks) ELSE p.i + 1

\* Parser._at
At(p) == ptoks[AtIdx(p)]

\* Parser._peek(1)
Peek1(p) == IF p.i + 1 < Len(ptoks) THEN ptoks[p.i + 2] ELSE ptoks[Len(ptoks)]

Is(p, kind) == At(p).kind = kind

IsV(p, kind, value) == At(p).kind = kind /\ At(p).value = value

Adv(p) == [p EXCEPT !.i = @ + 1]

\* `self.i += 1` of a recovery path: the token under the cursor is dropped
SkipTok(p) == [p EXCEPT !.i = @ + 1, !.skipped = @ \cup {AtIdx(p)}]

\* Parser._accept (the parser afterwards)
Accept(p, kind) == IF Is(p, kind) THEN Adv(p) ELSE p

\* Parser._expect(kind): on a mismatch a diagnostic, the cursor stays
Expect(p, kind, code) ==
    IF Is(p, kind) THEN Adv(p)
    ELSE [p EXCEPT !.diags = Append(@, PDiag(code, AtIdx(p)))]

\* Parser._expect(kind, value)
ExpectV(p, kind, value, code) ==
    IF IsV(p, kind, value) THEN Adv(p)
    ELSE [p EXCEPT !.diags = Append(@, PDiag(code, AtIdx(p)))]

\* int(t.value) for the NUMBER tokens of the model
NumberValue(text) ==
    CASE text = "0" -> 0 [] text = "1" -> 1 [] text = "2" -> 2 [] OTHER -> 3

\* the characters of a STRING or EMOJI token's text
TextChars(text) ==
    CASE text = "\"p\"" -> <<"\"", "p", "\"">>
      [] text = "\"a\\rb\"" -> <<"\"", "a", "\\", "r", "b", "\"">>
      [] OTHER -> <<"\"", "e", "\"">>

TYPE_KEYWORDS == {"Int", "Float", "Bool", "Text", "Null", "List", "Map",
                  "Record", "Result", "Any", "Never", "Optional"}

\* the tool emojis and the magnifying glass, written in ASCII
FUNC_EMOJIS == {"tool", "wrench"}
VERIFY_EMOJI == "glass"

RECURSIVE parse_typeexpr(_)
RECURSIVE TypeArgsLoop(_)

\* parser.py 262-263: while self._accept(TK_COMMA): args.append(...)
TypeArgsLoop(r) ==
    IF Is(r.p, "COMMA")
    THEN Bind(parse_typeexpr(Adv(r.p)), LAMBDA a :
             TypeArgsLoop(R(a.p, Append(r.node, a.node))))
    ELSE r

parse_typeprimary(p) ==
    Bind(IF Is(p, "KEYWORD") /\ At(p).value \in TYPE_KEYWORDS
         THEN R(Adv(p), TypeName(At(p).value))
         ELSE IF Is(p, "IDENT") THEN R(Adv(p), TypeName(At(p).value))
         ELSE R(Expect(p, "IDENT", "HND-TYPE-0001"), TypeName("Any")),
         LAMBDA t :
    IF Is(t.p, "LBRACK")
    THEN Bind(parse_typeexpr(Adv(t.p)), LAMBDA first :
         Bind(TypeArgsLoop(R(first.p, <<first.node>>)), LAMBDA args :
             R(Expect(args.p, "RBRACK", "HND-PARSE-0001"),
               TypeApp(t.node.name, args.node))))
    ELSE t)

parse_typeexpr(p) ==
    Bind(parse_typeprimary(p), LAMBDA base :
        IF Is(base.p, "QMARK") THEN R(Adv(base.p), TypeOptional(base.node))
        ELSE base)

RECURSIVE parse_expr(_)
RECURSIVE parse_unary(_)
RECURSIVE ArgsLoop(_)
RECURSIVE BinLoop(_, _)
RECURSIVE ParseLevel(_, _)

\* the operators of the four binary levels, loosest first
LevelOps(lvl) ==
    CASE lvl = 1 -> {"==", "!="}
      [] lvl = 2 -> {"<", "<=", ">", ">="}
      [] lvl = 3 -> {"+", "-"}
      [] lvl = 4 -> {"*", "/", "%"}

\* parser.py 181-182 / 339-340: while self._accept(TK_COMMA): args.append(...)
ArgsLoop(r) ==
    IF Is(r.p, "COMMA")
    THEN Bind(parse_expr(Adv(r.p)), LAMBDA a :
             ArgsLoop(R(a.p, Append(r.node, a.node))))
    ELSE r

\* parser.py 336-342: the arguments after '(' and the closing ')'
CallArgs(p) ==
    Bind(IF ~Is(p, "RPAREN")
         THEN Bind(parse_expr(p), LAMBDA first :
                  ArgsLoop(R(first.p, <<first.node>>)))
         ELSE R(p, <<>>),
         LAMBDA args :
    R(Expect(args.p, "RPAREN", "HND-PARSE-0001"), args.node))

\* the call after a callee name, or what the caller does without a '('
CallOr(p, callee, otherwise) ==
    IF Is(p, "LPAREN")
    THEN Bind(CallArgs(Adv(p)), LAMBDA a : R(a.p, Call(callee, a.node)))
    ELSE otherwise

parse_primary(p) ==
    Bind(At(p), LAMBDA t :
    IF t.kind = "NUMBER"
    THEN R(Adv(p), Literal("Int", IntV(NumberValue(t.value))))
    ELSE IF t.kind = "STRING"
    THEN R(Adv(p), Literal("Text", StrV(TextChars(t.value))))
    ELSE IF t.kind = "EMOJI"
    THEN R(Adv(p), Literal("Text", StrV(TextChars(t.value))))
    ELSE IF t.kind = "KEYWORD" /\ t.value \in {"true", "false"}
    THEN R(Adv(p), Literal("Bool", BoolV(t.value = "true")))
    ELSE IF t.kind = "KEYWORD" /\ t.value = "null"
    THEN R(Adv(p), Literal("Null", NoneV))
    ELSE IF t.kind = "KEYWORD" /\ t.value = "ask"
    THEN CallOr(Adv(p), t.value,
                R(Expect(Adv(p), "LPAREN", "HND-EXPR-0002"), Literal("Null", NoneV)))
    ELSE IF t.kind = "IDENT"
    THEN CallOr(Adv(p), t.value, R(Adv(p), Var(t.value)))
    ELSE IF t.kind = "LPAREN"
    THEN Bind(parse_expr(Adv(p)), LAMBDA e :
             R(Expect(e.p, "RPAREN", "HND-PARSE-0001"), Paren(e.node)))
    ELSE R(SkipTok(Expect(p, "IDENT", "HND-EXPR-0001")), Literal("Null", NoneV)))

parse_unary(p) ==
    IF IsV(p, "OP", "-")
    THEN Bind(parse_unary(Adv(p)), LAMBDA e : R(e.p, Unary("-", e.node)))
    ELSE parse_primary(p)

\* parser.py 272-302: _parse_equality, _parse_compare, _parse_term and
\* _parse_factor are levels 1..4; level 5 is _parse_unary
ParseLevel(p, lvl) ==
    IF lvl = 5 THEN parse_unary(p)
    ELSE Bind(ParseLevel(p, lvl + 1), LAMBDA left : BinLoop(left, lvl))

\* `while self._at().kind==TK_OP and self._at().value in (...)`
BinLoop(r, lvl) ==
    IF Is(r.p, "OP") /\ At(r.p).value \in LevelOps(lvl)
    THEN Bind(ParseLevel(Adv(r.p), lvl + 1), LAMBDA right :
             BinLoop(R(right.p, Binary(r.node, At(r.p).value, right.node)), lvl))
    ELSE r

parse_expr(p) == ParseLevel(p, 1)

RECURSIVE parse_stmt(_)
RECURSIVE parse_block(_)
RECURSIVE ParamsLoop(_)

\* parser.py 149-150: the scan of _looks_like_assign, from 0-based index k
RECURSIVE ScanToEq(_)
ScanToEq(k) ==
    IF k < Len(ptoks) /\ ptoks[k + 1].kind \notin {"EQ", "NEWLINE", "EOF"}
    THEN ScanToEq(k + 1)
    ELSE k

looks_like_assign(p) ==
    IF ~Is(p, "IDENT") THEN FALSE
    ELSE IF p.i + 1 >= Len(ptoks) THEN FALSE
    ELSE IF ptoks[p.i + 2].kind = "COLON"
    THEN Bind(ScanToEq(p.i + 2), LAMBDA k :
             k < Len(ptoks) /\ ptoks[k + 1].kind = "EQ")
    ELSE ptoks[p.i + 2].kind = "EQ"

\* an optional `: Type` annotation
Annotation(p) ==
    IF Is(p, "COLON") THEN parse_typeexpr(Adv(p)) ELSE R(p, NoTypeExpr)

parse_assign(p) ==
    Bind(Annotation(Expect(p, "IDENT", "HND-PARSE-0001")), LAMBDA declared :
    Bind(parse_expr(Expect(declared.p, "EQ", "HND-PARSE-0001")), LAMBDA value :
        R(value.p, AssignStmt(At(p).value, declared.node, value.node))))

parse_verify(p) ==
    Bind(parse_expr(IF Is(p, "EMOJI")
                    THEN ExpectV(p, "EMOJI", VERIFY_EMOJI, "HND-PARSE-0001")
                    ELSE ExpectV(p, "KEYWORD", "verify", "HND-PARSE-0001")),
         LAMBDA expr : R(expr.p, VerifyStmt(expr.node)))

parse_param(p) ==
    Bind(Annotation(Expect(p, "IDENT", "HND-PARSE-0001")), LAMBDA texpr :
        R(texpr.p, Param(At(p).value, texpr.node)))

ParamsLoop(r) ==
    IF Is(r.p, "COMMA")
    THEN Bind(parse_param(Adv(r.p)), LAMBDA a :
             ParamsLoop(R(a.p, Append(r.node, a.node))))
    ELSE r

\* `:` NEWLINE INDENT block DEDENT, as _parse_funcdef, _parse_if and
\* _parse_while read it
ColonBlock(p) ==
    Bind(parse_block(Expect(Expect(Expect(p, "COLON", "HND-PARSE-0001"),
                                   "NEWLINE", "HND-PARSE-0001"),
                            "INDENT", "HND-PARSE-0001")),
         LAMBDA body : R(Expect(body.p, "DEDENT", "HND-PARSE-0001"), body.node))

\* parser.py 173-175: an optional label before the function name
SkipLabel(p) ==
    IF Is(p, "IDENT") /\ Peek1(p).kind = "IDENT" THEN Adv(p) ELSE p

parse_funcdef(p) ==
    Bind(SkipLabel(Expect(p, "EMOJI", "HND-PARSE-0001")), LAMBDA p2 :
    Bind(Expect(Expect(p2, "IDENT", "HND-PARSE-0001"), "LPAREN", "HND-PARSE-0001"),
         LAMBDA p4 :
    Bind(IF ~Is(p4, "RPAREN")
         THEN Bind(parse_param(p4), LAMBDA first :
                  ParamsLoop(R(first.p, <<first.node>>)))
         ELSE R(p4, <<>>),
         LAMBDA params :
    Bind(Expect(params.p, "RPAREN", "HND-PARSE-0001"), LAMBDA p5 :
    Bind(IF IsV(p5, "OP", "->") THEN parse_typeexpr(Adv(p5)) ELSE R(p5, NoTypeExpr),
         LAMBDA ret :
    Bind(ColonBlock(ret.p), LAMBDA body :
        R(body.p, FuncDef(At(p2).value, params.node, ret.node, body.node))))))))

parse_if(p) ==
    Bind(parse_expr(ExpectV(p, "KEYWORD", "if", "HND-PARSE-0001")), LAMBDA cond :
    Bind(ColonBlock(cond.p), LAMBDA then_body :
        IF IsV(then_body.p, "KEYWORD", "else")
        THEN Bind(ColonBlock(Adv(then_body.p)), LAMBDA else_body :
                 R(else_body.p,
                   IfElseStmt(cond.node, then_body.node, else_body.node)))
        ELSE R(then_body.p, IfStmt(cond.node, then_body.node))))

parse_while(p) ==
    Bind(parse_expr(ExpectV(p, "KEYWORD", "while", "HND-PARSE-0001")), LAMBDA cond :
    Bind(ColonBlock(cond.p), LAMBDA body :
        R(body.p, WhileStmt(cond.node, body.node))))

parse_return(p) ==
    Bind(ExpectV(p, "KEYWORD", "return", "HND-PARSE-0001"), LAMBDA p1 :
        IF At(p1).kind \in {"NEWLINE", "DEDENT", "EOF"}
        THEN R(p1, ReturnStmt(NoneExpr))
        ELSE Bind(parse_expr(p1), LAMBDA e : R(e.p, ReturnStmt(e.node))))

parse_show(p) ==
    Bind(parse_expr(ExpectV(p, "KEYWORD", "show", "HND-PARSE-0001")), LAMBDA e :
        R(e.p, ShowStmt(e.node)))

parse_stmt(p) ==
    Bind(At(p), LAMBDA t :
    IF t.kind = "EMOJI" /\ t.value \in FUNC_EMOJIS THEN parse_funcdef(p)
    ELSE IF t.kind = "KEYWORD" /\ t.value = "verify" THEN parse_verify(p)
    ELSE IF t.kind = "KEYWORD" /\ t.value = "if" THEN parse_if(p)
    ELSE IF t.kind = "KEYWORD" /\ t.value = "while" THEN parse_while(p)
    ELSE IF t.kind = "KEYWORD" /\ t.value = "return" THEN parse_return(p)
    ELSE IF t.kind = "KEYWORD" /\ t.value = "show" THEN parse_show(p)
    ELSE IF t.kind = "IDENT" /\ looks_like_assign(p) THEN parse_assign(p)
    ELSE Bind(parse_expr(p), LAMBDA e : R(e.p, ExprStmt(e.node))))

RECURSIVE BlockLoop(_)
\* parser.py 111-119: the loop of _parse_block
BlockLoop(r) ==
    IF At(r.p).kind \in {"DEDENT", "EOF"} THEN r
    ELSE IF Is(r.p, "NEWLINE") THEN BlockLoop(R(Adv(r.p), r.node))
    ELSE Bind(IF IsV(r.p, "EMOJI", VERIFY_EMOJI) THEN parse_verify(r.p)
              ELSE parse_stmt(r.p),
              LAMBDA s :
         BlockLoop(R(Accept(s.p, "NEWLINE"), Append(r.node, s.node))))

parse_block(p) == BlockLoop(R(p, <<>>))

RECURSIVE SectionHeader(_)
\* parser.py 95-101: the header tokens up to ':' or the end of the line;
\* node is has_colon
SectionHeader(p) ==
    IF At(p).kind \in {"NEWLINE", "EOF"} THEN R(p, FALSE)
    ELSE IF Is(p, "COLON") THEN R(Adv(p), TRUE)
    ELSE SectionHeader(Adv(p))

parse_section(p) ==
    Bind(SectionHeader(Expect(p, "EMOJI", "HND-PARSE-0001")), LAMBDA h :
    Bind(Expect(h.p, "NEWLINE", "HND-PARSE-0001"), LAMBDA p2 :
        IF h.node /\ Is(p2, "INDENT")
        THEN Bind(parse_block(Adv(p2)), LAMBDA body :
                 R(Expect(body.p, "DEDENT", "HND-PARSE-0001"), Section(body.node)))
        ELSE R(p2, Section(<<>>))))

(***************************************************************************)
(* parser.py: Parser.parse -- the top-level loop                           *)
(***************************************************************************)
PCur == PState(p_i, p_diags, p_skipped)

\* store the parser fields back and append the item
PCommit(p, items) ==
    /\ p_i' = p.i
    /\ p_diags' = p.diags
    /\ p_skipped' = p.skipped
    /\ p_items' = items
    /\ UNCHANGED <<ptoks, p_pc>>
    /\ UNCHANGED nonParseVars

PLooping == p_pc = "loop" /\ At(PCur).kind # "EOF"

\* parser.py 69-72
ParseTopFunc ==
    /\ PLooping
    /\ Is(PCur, "EMOJI") /\ At(PCur).value \in FUNC_EMOJIS
    /\ \E r \in {parse_funcdef(PCur)} :
           PCommit(Accept(r.p, "NEWLINE"), Append(p_items, r.node))

\* parser.py 73-76
ParseTopVerify ==
    /\ PLooping
    /\ IsV(PCur, "EMOJI", VERIFY_EMOJI)
    /\ \E r \in {parse_verify(PCur)} :
           PCommit(Accept(r.p, "NEWLINE"), Append(p_items, r.node))

\* parser.py 77-79
ParseTopSection ==
    /\ PLooping
    /\ Is(PCur, "EMOJI")
    /\ At(PCur).value \notin FUNC_EMOJIS \cup {VERIFY_EMOJI}
    /\ \E r \in {parse_section(PCur)} :
           PCommit(r.p, Append(p_items, r.node))

\* parser.py 80-81
ParseTopNewline ==
    /\ PLooping
    /\ Is(PCur, "NEWLINE")
    /\ PCommit(Adv(PCur), p_items)

\* parser.py 82-85
ParseTopStmt ==
    /\ PLooping
    /\ At(PCur).kind \in {"KEYWORD", "IDENT"}
    /\ \E r \in {parse_stmt(PCur)} :
           PCommit(Accept(r.p, "NEWLINE"), Append(p_items, r.node))

\* mutant: recovery reports the token and leaves the cursor where it is
ParseTopRecover_Stays ==
    /\ PLooping
    /\ At(PCur).kind \notin {"EMOJI", "NEWLINE", "KEYWORD", "IDENT"}
    /\ PCommit([PCur EXCEPT !.diags = Append(@, PDiag("HND-PARSE-RECOVER", AtIdx(PCur)))],
               p_items)

\* parser.py 86-88: recovery. _expect is asked for the kind of the very
\* token under the cursor, so it consumes it; then the cursor moves once more
ParseTopRecover ==
    /\ PLooping
    /\ At(PCur).kind \notin {"EMOJI", "NEWLINE", "KEYWORD", "IDENT"}
    /\ LET p1 == Expect(PCur, At(PCur).kind, "HND-PARSE-RECOVER")
           p2 == [p1 EXCEPT !.skipped = @ \cup {AtIdx(PCur)}]
       IN  PCommit(SkipTok(p2), p_items)

\* parser.py 89
ParseReturn ==
    /\ p_pc = "loop"
    /\ At(PCur).kind = "EOF"
    /\ p_pc' = "done"
    /\ UNCHANGED <<ptoks, p_i, p_diags, p_skipped, p_items>>
    /\ UNCHANGED nonParseVars

\* the parser before any call
IdleParse ==
    /\ ptoks = <<>>
    /\ p_i = 0
    /\ p_diags = <<>>
    /\ p_skipped = {}
    /\ p_items = <<>>
    /\ p_pc = "idle"

(***************************************************************************)
(* Inputs of the parser: token streams laid out as lex() lays them out     *)
(***************************************************************************)
MaxSrcLines == 3

\* a line: its indentation level (0 or 1) and its tokens
PLine(lvl, toks) == [lvl |-> lvl, toks |-> toks]

KW(v) == Tok("KEYWORD", v)
ID(v) == Tok("IDENT", v)
NUM(v) == Tok("NUMBER", v)
COLON == Tok("COLON", ":")

ShowOne == <<KW("show"), NUM("1")>>

PLinePool ==
    { PLine(0, ShowOne),
      PLine(1, ShowOne),
      PLine(0, ShowOne \o <<NUM("2")>>),
      PLine(0, <<ID("x"), COLON, KW("Int"), Tok("QMARK", "?"), Tok("EQ", "="),
                 KW("null")>>),
      PLine(0, <<NUM("1")>>),
      PLine(0, <<Tok("RPAREN", ")")>>),
      PLine(0, <<KW("if"), KW("true"), COLON>>),
      PLine(0, <<KW("else"), COLON>>),
      PLine(0, <<KW("while"), ID("x"), Tok("OP", "<"), NUM("1"), COLON>>),
      PLine(0, <<Tok("EMOJI", "tool"), ID("f"), Tok("LPAREN", "("), ID("a"),
                 Tok("RPAREN", ")"), COLON>>),
      PLine(0, <<Tok("EMOJI", VERIFY_EMOJI), ID("x"), Tok("OP", "!="), KW("null")>>),
      PLine(0, <<Tok("EMOJI", "play"), ID("INICIAR"), COLON>>),
      PLine(1, <<KW("return")>>),
      PLine(1, <<ID("f"), Tok("LPAREN", "("), NUM("1"), Tok("COMMA", ","),
                 Tok("STRING", "\"p\""), Tok("RPAREN", ")")>>) }

\* lexer.py 153-163, 235-241: INDENT / DEDENT before the tokens of a line,
\* NEWLINE after them, the closing DEDENT and EOF at the end
RECURSIVE Layout(_, _)
Layout(lines, lvl) ==
    IF lines = <<>>
    THEN (IF lvl = 1 THEN <<Tok("DEDENT", "")>> ELSE <<>>) \o <<Tok("EOF", "")>>
    ELSE LET l == Head(lines)
         IN  (IF l.lvl > lvl THEN <<Tok("INDENT", "")>>
              ELSE IF l.lvl < lvl THEN <<Tok("DEDENT", "")>> ELSE <<>>)
             \o l.toks \o <<Tok("NEWLINE", "\n")>> \o Layout(Tail(lines), l.lvl)

TokenStreams == {Layout(ls, 0) : ls \in SeqsUpTo(PLinePool, MaxSrcLines)}

(***************************************************************************)
(* interpreter.py (hand_equivalence_oracle_v0_1): the reference            *)
(* interpreter.  `it` is the Interpreter object: step, trace, outputs,     *)
(* input_i and store.frames, with the pending exception (exc; "" is none)  *)
(* and the value a _ReturnSignal carries (ret).                            *)
(***************************************************************************)
NoExc == ""
ReturnSignal == "_ReturnSignal"

\* a name a frame does not hold
Unbound == [t |-> "unbound", n |-> 0, s |-> <<>>]

RtNames == {"x", "a"}

EmptyStoreFrame == [name \in RtNames |-> Unbound]

\* Interpreter.__init__
NewInterpreter ==
    [step |-> 0, trace |-> <<>>, outputs |-> <<>>, input_i |-> 0,
     frames |-> <<EmptyStoreFrame>>, exc |-> NoExc, ret |-> NoneV]

\* TraceEvent; detail is {tag, value, iter}: the op / stmt / expr / name /
\* fn / code entry, the value / cond / args entry, and the iter entry
TraceEvent(step, kind, tag, value, iter) ==
    [step |-> step, kind |-> kind,
     detail |-> [tag |-> tag, value |-> value, iter |-> iter]]

\* the result of an evaluation: the interpreter afterwards and the value
EV(it, v) == [it |-> it, v |-> v]

\* raise HandRuntimeError(code, ...)
Raise(it, code) == [it EXCEPT !.exc = code]

RaiseV(it, code) == EV(Raise(it, code), NoneV)

\* mutant: the step limit is never checked
Emit_Unbounded(it, kind, tag, value, iter) ==
    [it EXCEPT !.step = @ + 1,
               !.trace = Append(@, TraceEvent(it.step + 1, kind, tag, value, iter))]

\* Interpreter._emit
Emit(it, kind, tag, value, iter) ==
    IF it.step + 1 > rt_max_steps
    THEN [it EXCEPT !.step = @ + 1, !.exc = "HND-RT-9999"]
    ELSE [it EXCEPT !.step = @ + 1,
                    !.trace = Append(@, TraceEvent(it.step + 1, kind, tag, value, iter))]

\* str(n) of an int
RECURSIVE NatStr(_)
NatStr(n) ==
    IF n < 10
    THEN <<CASE n = 0 -> "0" [] n = 1 -> "1" [] n = 2 -> "2" [] n = 3 -> "3"
             [] n = 4 -> "4" [] n = 5 -> "5" [] n = 6 -> "6" [] n = 7 -> "7"
             [] n = 8 -> "8" [] OTHER -> "9">>
    ELSE NatStr(n \div 10) \o NatStr(n % 10)

\* Interpreter._repr, as the characters of the string
Repr(v) ==
    CASE v.t = "NoneType" -> <<"n", "u", "l", "l">>
      [] v.t = "bool" -> IF v.n = 1 THEN <<"t", "r", "u", "e">>
                         ELSE <<"f", "a", "l", "s", "e">>
      [] v.t = "int" -> IF v.n < 0 THEN <<"-">> \o NatStr(0 - v.n) ELSE NatStr(v.n)
      [] OTHER -> v.s

\* mutant: the element is handed out but the cursor stays
Ask_CursorStays(it, prompt) ==
    IF it.input_i >= Len(rt_inputs) THEN RaiseV(it, "HND-RT-0101")
    ELSE EV(Emit(it, "io", "ask", rt_inputs[it.input_i + 1], 0),
            StrV(rt_inputs[it.input_i + 1]))

\* Interpreter._ask
Ask(it, prompt) ==
    IF it.input_i >= Len(rt_inputs) THEN RaiseV(it, "HND-RT-0101")
    ELSE EV(Emit([it EXCEPT !.input_i = @ + 1], "io", "ask",
                 rt_inputs[it.input_i + 1], 0),
            StrV(rt_inputs[it.input_i + 1]))

\* Interpreter._show
Show(it, v) ==
    Emit([it EXCEPT !.outputs = Append(@, Repr(v))], "io", "show", Repr(v), 0)

\* Store.get: the innermost frame that holds the name
RECURSIVE StoreFrameOf(_, _, _)
StoreFrameOf(frames, name, k) ==
    IF k = 0 THEN 0
    ELSE IF frames[k][name] # Unbound THEN k
    ELSE StoreFrameOf(frames, name, k - 1)

StoreGet(it, name) ==
    Bind(StoreFrameOf(it.frames, name, Len(it.frames)), LAMBDA k :
        IF k = 0 THEN RaiseV(it, "HND-RT-0001") ELSE EV(it, it.frames[k][name]))

\* Store.set: the nearest binding, else the current (last) frame
StoreSet(frames, name, value) ==
    Bind(StoreFrameOf(frames, name, Len(frames)), LAMBDA k :
        [frames EXCEPT ![IF k = 0 THEN Len(frames) ELSE k][name] = value])

StorePush(it) == [it EXCEPT !.frames = Append(@, EmptyStoreFrame)]

StorePop(it) == [it EXCEPT !.frames = SubSeq(@, 1, Len(@) - 1)]

\* isinstance(v, (int, float)): a Python bool is an int
IsNumber(v) == v.t \in {"int", "bool"}

IsBool(v) == v.t = "bool"

\* Python's == on the values of the model: numbers compare by value
PyEq(a, b) == IF IsNumber(a) /\ IsNumber(b) THEN a.n = b.n ELSE a = b

\* Interpreter._unescape_string from index i of the body
RECURSIVE UnescapeFrom(_, _)
UnescapeFrom(body, i) ==
    IF i > Len(body) THEN <<>>
    ELSE IF body[i] # "\\" THEN <<body[i]>> \o UnescapeFrom(body, i + 1)
    ELSE IF i + 1 > Len(body) THEN <<"\\">>
    ELSE IF body[i + 1] = "\\" /\ i + 2 <= Len(body) /\ body[i + 2] \in {"n", "t"}
    THEN <<IF body[i + 2] = "n" THEN "\n" ELSE "\t">> \o UnescapeFrom(body, i + 3)
    ELSE <<CASE body[i + 1] = "n" -> "\n"
             [] body[i + 1] = "t" -> "\t"
             [] OTHER -> body[i + 1]>> \o UnescapeFrom(body, i + 2)

unescape_string(s) ==
    IF Len(s) >= 2 /\ s[1] = "\"" /\ s[Len(s)] = "\""
    THEN UnescapeFrom(SubSeq(s, 2, Len(s) - 1), 1)
    ELSE s

\* results the values of the model do not include (the float of `a / b`, the
\* ordering of two strings, a repeated string): a run that needs one stops
\* here, marked as such
Unmodelled == "a value outside the model"

\* the codes of HandRuntimeError; every other exception is a Python error
IsHandError(code) == code \notin {NoExc, ReturnSignal, "ZeroDivisionError", Unmodelled}

\* Interpreter._eval_bin
eval_bin(it, a, op, b) ==
    IF op \in {"+", "-", "*", "/", "%"}
    THEN IF op = "+" /\ a.t = "str" /\ b.t = "str" THEN EV(it, StrV(a.s \o b.s))
         ELSE IF ~IsNumber(a) \/ ~IsNumber(b) THEN RaiseV(it, "HND-RT-1201")
         ELSE IF op = "+" THEN EV(it, IntV(a.n + b.n))
         ELSE IF op = "-" THEN EV(it, IntV(a.n - b.n))
         ELSE IF op = "*" THEN EV(it, IntV(a.n * b.n))
         ELSE IF b.n = 0 THEN RaiseV(it, "ZeroDivisionError")
         ELSE IF op = "%"
         THEN EV(it, IntV(IF b.n > 0 THEN a.n % b.n
                          ELSE 0 - ((0 - a.n) % (0 - b.n))))
         ELSE RaiseV(it, Unmodelled)
    ELSE IF op = "==" THEN EV(it, BoolV(PyEq(a, b)))
    ELSE IF op = "!=" THEN EV(it, BoolV(~PyEq(a, b)))
    ELSE IF op \in {"<", "<=", ">", ">="}
    THEN IF ~IsNumber(a) \/ ~IsNumber(b) THEN RaiseV(it, "HND-RT-1202")
         ELSE IF op = "<" THEN EV(it, BoolV(a.n < b.n))
         ELSE IF op = "<=" THEN EV(it, BoolV(a.n <= b.n))
         ELSE IF op = ">" THEN EV(it, BoolV(a.n > b.n))
         ELSE EV(it, BoolV(a.n >= b.n))
    ELSE RaiseV(it, "HND-RT-1200")

\* self.functions: the last definition of a name wins
RECURSIVE FnIndex(_, _)
FnIndex(name, k) ==
    IF k = 0 THEN 0
    ELSE IF rt_functions[k].name = name THEN k
    ELSE FnIndex(name, k - 1)

\* the frame _call_user fills with store.declare(param.name, val)
RECURSIVE DeclareParams(_, _, _, _)
DeclareParams(frame, params, argvals, k) ==
    IF k > Len(params) \/ k > Len(argvals) THEN frame
    ELSE DeclareParams([frame EXCEPT ![params[k].name] = argvals[k]],
                       params, argvals, k + 1)

RECURSIVE eval_expr(_, _)
RECURSIVE EvalArgs(_, _, _)
RECURSIVE exec_stmt(_, _)
RECURSIVE ExecStmts(_, _, _)
RECURSIVE WhileLoop(_, _, _)

\* `for st in body: self.exec_stmt(st)` from the k-th statement on
ExecStmts(it, body, k) ==
    IF k > Len(body) \/ it.exc # NoExc THEN it
    ELSE ExecStmts(exec_stmt(it, body[k]), body, k + 1)

\* mutant: the frame is popped only when the body ends normally
ExecScoped_PopOnSuccess(it, body) ==
    Bind(ExecStmts(StorePush(it), body, 1),
         LAMBDA after : IF after.exc # NoExc THEN after ELSE StorePop(after))

\* store.push(); try: <body> finally: store.pop()
ExecScoped(it, body) == StorePop(ExecStmts(StorePush(it), body, 1))

\* Interpreter._call_user
call_user(it, fn, argvals) ==
    Bind(StorePop(ExecStmts(
             [it EXCEPT !.frames =
                 Append(@, DeclareParams(EmptyStoreFrame, fn.params, argvals, 1))],
             fn.then_body, 1)),
         LAMBDA after :
        IF after.exc = ReturnSignal
        THEN EV([after EXCEPT !.exc = NoExc, !.ret = NoneV], after.ret)
        ELSE EV(after, NoneV))

\* argvals=[self.eval_expr(a) for a in e.args], from the k-th argument on;
\* r.v is the list so far
EvalArgs(r, args, k) ==
    IF k > Len(args) \/ r.it.exc # NoExc THEN r
    ELSE Bind(eval_expr(r.it, args[k]), LAMBDA a :
             EvalArgs(EV(a.it, Append(r.v, a.v)), args, k + 1))

\* interpreter.py 172-193: a Call node
EvalCall(it, e) ==
    IF e.name = "ask"
    THEN IF Len(e.args) # 1 THEN RaiseV(it, "HND-RT-0102")
         ELSE Bind(eval_expr(it, e.args[1]), LAMBDA p :
                  IF p.it.exc # NoExc THEN p ELSE Ask(p.it, p.v))
    ELSE IF e.name = "show"
    THEN IF Len(e.args) # 1 THEN RaiseV(it, "HND-RT-0103")
         ELSE Bind(eval_expr(it, e.args[1]), LAMBDA p :
                  IF p.it.exc # NoExc THEN p ELSE EV(Show(p.it, p.v), NoneV))
    ELSE Bind(FnIndex(e.name, Len(rt_functions)), LAMBDA f :
         IF f = 0 THEN RaiseV(it, "HND-RT-0301")
         ELSE IF Len(e.args) # Len(rt_functions[f].params)
         THEN RaiseV(it, "HND-RT-0302")
         ELSE Bind(EvalArgs(EV(it, <<>>), e.args, 1), LAMBDA argvals :
              IF argvals.it.exc # NoExc THEN EV(argvals.it, NoneV)
              ELSE Bind(Emit(argvals.it, "call", e.name, <<>>, 0), LAMBDA called :
                   IF called.exc # NoExc THEN EV(called, NoneV)
                   ELSE call_user(called, rt_functions[f], argvals.v))))

\* Interpreter.eval_expr
eval_expr(it0, e) ==
    Bind(Emit(it0, "eval_expr", e.node, <<>>, 0), LAMBDA it :
    IF it.exc # NoExc THEN EV(it, NoneV)
    ELSE IF e.node = "Literal"
    THEN EV(it, IF e.kind = "Text" THEN StrV(unescape_string(e.value.s)) ELSE e.value)
    ELSE IF e.node = "Var" THEN StoreGet(it, e.name)
    ELSE IF e.node = "Paren" THEN eval_expr(it, e.args[1])
    ELSE IF e.node = "Unary"
    THEN Bind(eval_expr(it, e.args[1]), LAMBDA r :
             IF r.it.exc # NoExc THEN r
             ELSE IF e.op = "-"
             THEN IF ~IsNumber(r.v) THEN RaiseV(r.it, "HND-RT-0201")
                  ELSE EV(r.it, IntV(0 - r.v.n))
             ELSE RaiseV(r.it, "HND-RT-0200"))
    ELSE IF e.node = "Binary"
    THEN Bind(eval_expr(it, e.args[1]), LAMBDA a :
             IF a.it.exc # NoExc THEN a
             ELSE Bind(eval_expr(a.it, e.args[2]), LAMBDA b :
                      IF b.it.exc # NoExc THEN b
                      ELSE eval_bin(b.it, a.v, e.op, b.v)))
    ELSE IF e.node = "Call" THEN EvalCall(it, e)
    ELSE RaiseV(it, "HND-RT-0002"))

\* emit exit_stmt unless an exception is on its way
ExitStmt(it, s) ==
    IF it.exc # NoExc THEN it ELSE Emit(it, "exit_stmt", s.node, <<>>, 0)

\* interpreter.py 302-321: the loop of a WhileStmt; done is the local `it`
WhileLoop(it, s, done) ==
    IF done + 1 > rt_max_loop_iters THEN Raise(it, "HND-RT-9998")
    ELSE Bind(eval_expr(it, s.value), LAMBDA c :
         IF c.it.exc # NoExc THEN c.it
         ELSE IF ~IsBool(c.v) THEN Raise(c.it, "HND-RT-0601")
         ELSE Bind(Emit(c.it, "loop_check", "", Repr(c.v), done + 1), LAMBDA chk :
              IF chk.exc # NoExc THEN chk
              ELSE IF c.v.n = 0 THEN ExitStmt(chk, s)
              ELSE Bind(ExecScoped(chk, s.then_body), LAMBDA after :
                   IF after.exc # NoExc THEN after
                   ELSE WhileLoop(after, s, done + 1))))

\* Interpreter.exec_stmt
exec_stmt(it0, s) ==
    Bind(Emit(it0, "enter_stmt", s.node, <<>>, 0), LAMBDA it :
    IF it.exc # NoExc THEN it
    ELSE IF s.node = "AssignStmt"
    THEN Bind(eval_expr(it, s.value), LAMBDA r :
             IF r.it.exc # NoExc THEN r.it
             ELSE ExitStmt(Emit([r.it EXCEPT !.frames = StoreSet(@, s.name, r.v)],
                                "assign", s.name, Repr(r.v), 0), s))
    ELSE IF s.node = "ExprStmt"
    THEN Bind(eval_expr(it, s.value), LAMBDA r : ExitStmt(r.it, s))
    ELSE IF s.node = "ShowStmt"
    THEN Bind(eval_expr(it, s.value), LAMBDA r :
             IF r.it.exc # NoExc THEN r.it ELSE ExitStmt(Show(r.it, r.v), s))
    ELSE IF s.node = "VerifyStmt"
    THEN Bind(eval_expr(it, s.value), LAMBDA r :
             IF r.it.exc # NoExc THEN r.it
             ELSE IF ~IsBool(r.v) THEN Raise(r.it, "HND-RT-0402")
             ELSE Bind(Emit(r.it, "verify", "", Repr(r.v), 0), LAMBDA v :
                  IF v.exc # NoExc THEN v
                  ELSE IF r.v.n = 0 THEN Raise(v, "HND-RT-0401")
                  ELSE ExitStmt(v, s)))
    ELSE IF s.node = "IfStmt"
    THEN Bind(eval_expr(it, s.value), LAMBDA c :
             IF c.it.exc # NoExc THEN c.it
             ELSE IF ~IsBool(c.v) THEN Raise(c.it, "HND-RT-0501")
             ELSE Bind(Emit(c.it, "branch", "", Repr(c.v), 0), LAMBDA br :
                  IF br.exc # NoExc THEN br
                  ELSE ExitStmt(ExecScoped(br, IF c.v.n = 1 THEN s.then_body
                                               ELSE s.else_body), s)))
    ELSE IF s.node = "WhileStmt" THEN WhileLoop(it, s, 0)
    ELSE IF s.node = "ReturnStmt"
    THEN Bind(IF s.value = NoneExpr THEN EV(it, NoneV) ELSE eval_expr(it, s.value),
              LAMBDA r :
             IF r.it.exc # NoExc THEN r.it
             ELSE Bind(Emit(r.it, "return", "", Repr(r.v), 0), LAMBDA ret :
                  IF ret.exc # NoExc THEN ret
                  ELSE [ret EXCEPT !.exc = ReturnSignal, !.ret = r.v]))
    ELSE Raise(it, "HND-RT-0003"))

\* Interpreter.load_program: the top-level statements, in order
RECURSIVE LoadTop(_)
LoadTop(items) ==
    IF items = <<>> THEN <<>>
    ELSE (IF Head(items).node = "Section" THEN Head(items).then_body
          ELSE IF Head(items).node = "FuncDef" THEN <<>>
          ELSE <<Head(items)>>) \o LoadTop(Tail(items))

\* Interpreter.load_program: self.functions, in the order of definition
LoadFunctions(items) == SelectSeq(items, LAMBDA item : item.node = "FuncDef")

\* Interpreter.store_snapshot
store_snapshot(it) == it.frames[1]

(***************************************************************************)
(* interpreter.py: Interpreter.run                                         *)
(***************************************************************************)
\* interpreter.py 368: top=self.load_program(program)
RunLoad ==
    /\ rt_pc = "new"
    /\ rt_top' = LoadTop(rt_items)
    /\ rt_functions' = LoadFunctions(rt_items)
    /\ rt_k' = 1
    /\ rt_pc' = "run"
    /\ UNCHANGED <<rt_items, rt_inputs, rt_max_steps, rt_max_loop_iters, rt_it>>
    /\ UNCHANGED nonRtVars

\* interpreter.py 369-371: one statement of `for st in top`; a
\* HandRuntimeError goes to the except clause, any other exception leaves run
RunStmt ==
    /\ rt_pc = "run"
    /\ rt_k <= Len(rt_top)
    /\ \E it \in {exec_stmt(rt_it, rt_top[rt_k])} :
           /\ rt_it' = it
           /\ rt_k' = IF it.exc = NoExc THEN rt_k + 1 ELSE rt_k
           /\ rt_pc' = IF it.exc = NoExc THEN "run"
                       ELSE IF IsHandError(it.exc) THEN "except"
                       ELSE "crashed"
    /\ UNCHANGED <<rt_items, rt_inputs, rt_max_steps, rt_max_loop_iters, rt_top,
                   rt_functions>>
    /\ UNCHANGED nonRtVars

\* interpreter.py 372-374: the error event, then `raise`; _emit may raise
\* HND-RT-9999 in place of the error being handled
RunExcept ==
    /\ rt_pc = "except"
    /\ rt_it' = Emit(rt_it, "error", rt_it.exc, <<>>, 0)
    /\ rt_pc' = "failed"
    /\ UNCHANGED <<rt_items, rt_inputs, rt_max_steps, rt_max_loop_iters, rt_top,
                   rt_functions, rt_k>>
    /\ UNCHANGED nonRtVars

\* interpreter.py 375: return self._finalize()
RunFinalize ==
    /\ rt_pc = "run"
    /\ rt_k > Len(rt_top)
    /\ rt_pc' = "done"
    /\ UNCHANGED <<rt_items, rt_inputs, rt_max_steps, rt_max_loop_iters, rt_top,
                   rt_functions, rt_k, rt_it>>
    /\ UNCHANGED nonRtVars

\* no interpreter yet
IdleRt ==
    /\ rt_items = <<>>
    /\ rt_inputs = <<>>
    /\ rt_max_steps = 0
    /\ rt_max_loop_iters = 0
    /\ rt_top = <<>>
    /\ rt_functions = <<>>
    /\ rt_k = 0
    /\ rt_it = NewInterpreter
    /\ rt_pc = "idle"

(***************************************************************************)
(* Inputs of the interpreter                                               *)
(***************************************************************************)
MaxRunItems == 2
MaxInputs == 2
MaxSteps == 16
MaxLoopIters == 2

LitP == Literal("Text", StrV(<<"\"", "p", "\"">>))
LitZero == Literal("Int", IntV(0))
AskP == Call("ask", <<LitP>>)
Untyped(name, value) == AssignStmt(name, NoTypeExpr, value)

\* tool f(a): show a / return a
RtFunc ==
    FuncDef("f", <<Param("a", NoTypeExpr)>>, NoTypeExpr,
            <<ShowStmt(Var("a")), ReturnStmt(Var("a"))>>)
\* a section holding  x = 0 / while x < 1: x = x + 1
RtSection ==
    Section(<<Untyped("x", LitZero),
              WhileStmt(Binary(Var("x"), "<", LitOne),
                        <<Untyped("x", Binary(Var("x"), "+", LitOne))>>)>>)
RtAssignAsk == Untyped("x", AskP)
\* while true: show ask("p")
RtLoopAsk == WhileStmt(LitTrue, <<ShowStmt(AskP)>>)
\* while true: x = 1
RtLoopForever == WhileStmt(LitTrue, <<Untyped("x", LitOne)>>)
RtCall == Untyped("x", Call("f", <<AskP>>))
\* if true: return
RtIfReturn == IfStmt(LitTrue, <<ReturnStmt(NoneExpr)>>)

RtItemPool ==
    {RtFunc, RtSection, RtAssignAsk, RtLoopAsk, RtLoopForever, RtCall,
     RtIfReturn}

RtPrograms == SeqsUpTo(RtItemPool, MaxRunItems)

\* the mocked inputs "7", "8", "9", ...
InputLists == {[j \in 1..n |-> NatStr(6 + j)] : n \in 0..MaxInputs}

(***************************************************************************)
(* typecheck.py: typecheck(program), as compile_to_ir calls it             *)
(***************************************************************************)
RECURSIVE TypecheckFrom(_, _, _)
TypecheckFrom(items, k, tc) ==
    IF k > Len(items) THEN tc.diags
    ELSE TypecheckFrom(items, k + 1,
                       IF items[k].node = "Section" THEN CheckSection(items[k], tc)
                       ELSE check_stmt(items[k], tc))

typecheck(items) == TypecheckFrom(items, 1, TcState(<<EmptyFrame>>, <<>>, NoType))

(***************************************************************************)
(* lowering.py: AST -> IR, the part the host-language backend reads        *)
(***************************************************************************)
IrExpr(kind, type, value, name, op, args) ==
    [kind |-> kind, type |-> type, value |-> value, name |-> name, op |-> op,
     args |-> args]

IrNullLit == IrExpr("lit", "Null", NoneV, "", "", <<>>)

RECURSIVE lower_expr(_)
lower_expr(e) ==
    IF e.node = "Literal"
    THEN IrExpr("lit",
                IF e.kind \in {"Int", "Float", "Bool", "Text", "Null"} THEN e.kind
                ELSE "",
                e.value, "", "", <<>>)
    ELSE IF e.node = "Var" THEN IrExpr("var", "", NoneV, e.name, "", <<>>)
    ELSE IF e.node = "Paren" THEN lower_expr(e.args[1])
    ELSE IF e.node \in {"Unary", "Binary", "Call"}
    THEN IrExpr(CASE e.node = "Unary" -> "unary" [] e.node = "Binary" -> "binary"
                  [] OTHER -> "call",
                "", NoneV, e.name, e.op,
                [k \in 1..Len(e.args) |-> lower_expr(e.args[k])])
    ELSE IrNullLit

\* an IR statement; has_value is `value is not None` of a return
IrNode(kind, name, value, has_value, then, else, body) ==
    [kind |-> kind, name |-> name, value |-> value, has_value |-> has_value,
     then |-> then, else |-> else, body |-> body]

RECURSIVE lower_stmt(_)
lower_stmt(s) ==
    IF s.node = "AssignStmt"
    THEN IrNode("assign", s.name, lower_expr(s.value), TRUE, <<>>, <<>>, <<>>)
    ELSE IF s.node = "ExprStmt"
    THEN IrNode("expr", "", lower_expr(s.value), TRUE, <<>>, <<>>, <<>>)
    ELSE IF s.node = "ShowStmt"
    THEN IrNode("show", "", lower_expr(s.value), TRUE, <<>>, <<>>, <<>>)
    ELSE IF s.node = "VerifyStmt"
    THEN IrNode("verify", "", lower_expr(s.value), TRUE, <<>>, <<>>, <<>>)
    ELSE IF s.node = "IfStmt"
    THEN IrNode("if", "", lower_expr(s.value), TRUE,
                [k \in 1..Len(s.then_body) |-> lower_stmt(s.then_body[k])],
                [k \in 1..Len(s.else_body) |-> lower_stmt(s.else_body[k])], <<>>)
    ELSE IF s.node = "WhileStmt"
    THEN IrNode("while", "", lower_expr(s.value), TRUE, <<>>, <<>>,
                [k \in 1..Len(s.then_body) |-> lower_stmt(s.then_body[k])])
    ELSE IF s.node = "ReturnStmt"
    THEN IrNode("return", "",
                IF s.value = NoneExpr THEN IrNullLit ELSE lower_expr(s.value),
                s.value # NoneExpr, <<>>, <<>>, <<>>)
    ELSE IrNode("expr", "", IrNullLit, TRUE, <<>>, <<>>, <<>>)

lower_function(fn) ==
    [name |-> fn.name,
     params |-> [k \in 1..Len(fn.params) |-> [name |-> fn.params[k].name]],
     body |-> [k \in 1..Len(fn.then_body) |-> lower_stmt(fn.then_body[k])]]

RECURSIVE LowerTop(_)
LowerTop(items) ==
    IF items = <<>> THEN <<>>
    ELSE (IF Head(items).node = "Section"
          THEN [k \in 1..Len(Head(items).then_body) |->
                   lower_stmt(Head(items).then_body[k])]
          ELSE IF Head(items).node = "FuncDef" THEN <<>>
          ELSE <<lower_stmt(Head(items))>>) \o LowerTop(Tail(items))

RECURSIVE LowerFunctions(_)
LowerFunctions(items) ==
    IF items = <<>> THEN <<>>
    ELSE (IF Head(items).node = "FuncDef" THEN <<lower_function(Head(items))>>
          ELSE <<>>) \o LowerFunctions(Tail(items))

lower_program(items) ==
    [functions |-> LowerFunctions(items), toplevel |-> LowerTop(items)]

(***************************************************************************)
(* python_gen.py: the program gen_python emits, by what it does when run   *)
(***************************************************************************)
\* the operators emit_expr has a Python spelling for
GenBinaryOps == {"==", "!=", "<", ">", "<=", ">=", "+", "-", "*", "/"}
GenUnaryOps == {"-", "not"}

\* gen_python raises ValueError on any other operator
RECURSIVE GenExprOk(_)
GenExprOk(e) ==
    /\ e.kind = "unary" => e.op \in GenUnaryOps
    /\ e.kind = "binary" => e.op \in GenBinaryOps
    /\ \A k \in 1..Len(e.args) : GenExprOk(e.args[k])

RECURSIVE GenStmtOk(_)
GenStmtOk(s) ==
    /\ GenExprOk(s.value)
    /\ \A k \in 1..Len(s.then) : GenStmtOk(s.then[k])
    /\ \A k \in 1..Len(s.else) : GenStmtOk(s.else[k])
    /\ \A k \in 1..Len(s.body) : GenStmtOk(s.body[k])

GenOk(mod) ==
    /\ \A k \in 1..Len(mod.toplevel) : GenStmtOk(mod.toplevel[k])
    /\ \A f \in 1..Len(mod.functions) :
           \A k \in 1..Len(mod.functions[f].body) :
               GenStmtOk(mod.functions[f].body[k])

\* ast.literal_eval of the body of a double-quoted literal, for the escapes
\* \n \t \r \\ \" \' ; Python keeps the backslash of an escape it does not know
RECURSIVE PyEscapesFrom(_, _)
PyEscapesFrom(body, i) ==
    IF i > Len(body) THEN <<>>
    ELSE IF body[i] # "\\" THEN <<body[i]>> \o PyEscapesFrom(body, i + 1)
    ELSE IF body[i + 1] \in {"n", "t", "r", "\\", "\"", "'"}
    THEN <<CASE body[i + 1] = "n" -> "\n"
             [] body[i + 1] = "t" -> "\t"
             [] body[i + 1] = "r" -> "\r"
             [] OTHER -> body[i + 1]>> \o PyEscapesFrom(body, i + 2)
    ELSE <<"\\", body[i + 1]>> \o PyEscapesFrom(body, i + 2)

\* whether literal_eval reads the token as one string literal
RECURSIVE PyBodyOk(_, _)
PyBodyOk(body, i) ==
    IF i > Len(body) THEN TRUE
    ELSE IF body[i] = "\"" THEN FALSE
    ELSE IF body[i] = "\\" THEN i + 1 <= Len(body) /\ PyBodyOk(body, i + 2)
    ELSE PyBodyOk(body, i + 1)

IsQuoted(s) == Len(s) >= 2 /\ s[1] = "\"" /\ s[Len(s)] = "\""

\* python_gen.py 9-21: _decode_text_literal
decode_text_literal(s) ==
    IF IsQuoted(s) /\ PyBodyOk(SubSeq(s, 2, Len(s) - 1), 1)
    THEN PyEscapesFrom(SubSeq(s, 2, Len(s) - 1), 1)
    ELSE IF IsQuoted(s) THEN SubSeq(s, 2, Len(s) - 1)
    ELSE s

\* python_gen.py 102-103: the generated _truthy, Python's bool(v)
truthy(v) ==
    CASE v.t = "NoneType" -> FALSE
      [] v.t = "str" -> v.s # <<>>
      [] OTHER -> v.n # 0

\* Store and Runtime of the generated program at the start of __hand_main
NewGen ==
    [outputs |-> <<>>, ip |-> 0, frames |-> <<EmptyStoreFrame>>, exc |-> NoExc,
     ret |-> NoneV]

\* the host program runs without a step limit: past GenMaxIters iterations
\* of one loop the run counts as not returning
GenMaxIters == 3
Diverges == "does not return"

\* Python's binary operators on the values of the model
PyBinary(g, a, op, b) ==
    IF op = "==" THEN EV(g, BoolV(PyEq(a, b)))
    ELSE IF op = "!=" THEN EV(g, BoolV(~PyEq(a, b)))
    ELSE IF IsNumber(a) /\ IsNumber(b)
    THEN IF op = "+" THEN EV(g, IntV(a.n + b.n))
         ELSE IF op = "-" THEN EV(g, IntV(a.n - b.n))
         ELSE IF op = "*" THEN EV(g, IntV(a.n * b.n))
         ELSE IF op = "/"
         THEN RaiseV(g, IF b.n = 0 THEN "ZeroDivisionError" ELSE Unmodelled)
         ELSE IF op = "<" THEN EV(g, BoolV(a.n < b.n))
         ELSE IF op = "<=" THEN EV(g, BoolV(a.n <= b.n))
         ELSE IF op = ">" THEN EV(g, BoolV(a.n > b.n))
         ELSE EV(g, BoolV(a.n >= b.n))
    ELSE IF a.t = "str" /\ b.t = "str"
    THEN IF op = "+" THEN EV(g, StrV(a.s \o b.s))
         ELSE IF op \in {"<", "<=", ">", ">="} THEN RaiseV(g, Unmodelled)
         ELSE RaiseV(g, "TypeError")
    ELSE IF op = "*" /\ {a.t, b.t} \in {{"str", "int"}, {"str", "bool"}}
    THEN RaiseV(g, Unmodelled)
    ELSE RaiseV(g, "TypeError")

\* the generated def of a name: the last one wins
RECURSIVE GenFnIndex(_, _, _)
GenFnIndex(fns, name, k) ==
    IF k = 0 THEN 0
    ELSE IF fns[k].name = name THEN k
    ELSE GenFnIndex(fns, name, k - 1)

RECURSIVE GenExpr(_, _, _)
RECURSIVE GenArgs(_, _, _, _)
RECURSIVE GenStmt(_, _, _)
RECURSIVE GenStmts(_, _, _, _)
RECURSIVE GenWhile(_, _, _, _)

GenStmts(fns, g, stmts, k) ==
    IF k > Len(stmts) \/ g.exc # NoExc THEN g
    ELSE GenStmts(fns, GenStmt(fns, g, stmts[k]), stmts, k + 1)

GenArgs(fns, r, args, k) ==
    IF k > Len(args) \/ r.it.exc # NoExc THEN r
    ELSE Bind(GenExpr(fns, r.it, args[k]), LAMBDA a :
             GenArgs(fns, EV(a.it, Append(r.v, a.v)), args, k + 1))

\* python_gen.py 203-223: the def emitted for a user function
GenFunction(fns, g, fn, argvals) ==
    Bind(StorePop(GenStmts(fns,
             [g EXCEPT !.frames =
                 Append(@, DeclareParams(EmptyStoreFrame, fn.params, argvals, 1))],
             fn.body, 1)),
         LAMBDA after :
        IF after.exc = ReturnSignal
        THEN EV([after EXCEPT !.exc = NoExc, !.ret = NoneV], after.ret)
        ELSE EV(after, NoneV))

\* python_gen.py 138-146: the code emitted for a call
GenCall(fns, g, e) ==
    IF e.name = "ask"
    THEN Bind(IF e.args = <<>> THEN EV(g, StrV(<<>>)) ELSE GenExpr(fns, g, e.args[1]),
              LAMBDA p :
             IF p.it.exc # NoExc THEN p
             ELSE IF p.it.ip >= Len(rt_inputs) THEN RaiseV(p.it, "RuntimeError")
             ELSE EV([p.it EXCEPT !.ip = @ + 1], StrV(rt_inputs[p.it.ip + 1])))
    ELSE IF e.name = "show"
    THEN Bind(IF e.args = <<>> THEN EV(g, NoneV) ELSE GenExpr(fns, g, e.args[1]),
              LAMBDA p :
             IF p.it.exc # NoExc THEN p
             ELSE EV([p.it EXCEPT !.outputs = Append(@, Repr(p.v))], NoneV))
    ELSE Bind(GenFnIndex(fns, e.name, Len(fns)), LAMBDA f :
         IF f = 0 THEN RaiseV(g, "NameError")
         ELSE Bind(GenArgs(fns, EV(g, <<>>), e.args, 1), LAMBDA argvals :
              IF argvals.it.exc # NoExc THEN EV(argvals.it, NoneV)
              ELSE IF Len(argvals.v) # Len(fns[f].params)
              THEN RaiseV(argvals.it, "TypeError")
              ELSE GenFunction(fns, argvals.it, fns[f], argvals.v)))

\* python_gen.py 107-147: emit_expr, by the value of the emitted expression
GenExpr(fns, g, e) ==
    IF e.kind = "lit"
    THEN EV(g, IF e.type = "Text" /\ e.value.t = "str"
               THEN StrV(decode_text_literal(e.value.s))
               ELSE IF e.type = "Bool" THEN BoolV(truthy(e.value))
               ELSE IF e.type = "Null" \/ e.value = NoneV THEN NoneV
               ELSE e.value)
    ELSE IF e.kind = "var"
    THEN Bind(StoreFrameOf(g.frames, e.name, Len(g.frames)), LAMBDA k :
             IF k = 0 THEN RaiseV(g, "RuntimeError") ELSE EV(g, g.frames[k][e.name]))
    ELSE IF e.kind = "unary"
    THEN Bind(GenExpr(fns, g, e.args[1]), LAMBDA r :
             IF r.it.exc # NoExc THEN r
             ELSE IF e.op = "not" THEN EV(r.it, BoolV(~truthy(r.v)))
             ELSE IF IsNumber(r.v) THEN EV(r.it, IntV(0 - r.v.n))
             ELSE RaiseV(r.it, "TypeError"))
    ELSE IF e.kind = "binary"
    THEN Bind(GenExpr(fns, g, e.args[1]), LAMBDA a :
             IF a.it.exc # NoExc THEN a
             ELSE Bind(GenExpr(fns, a.it, e.args[2]), LAMBDA b :
                      IF b.it.exc # NoExc THEN b
                      ELSE PyBinary(b.it, a.v, e.op, b.v)))
    ELSE GenCall(fns, g, e)

\* python_gen.py 190-198: the `while _truthy(cond):` emitted for a while
GenWhile(fns, g, s, done) ==
    Bind(GenExpr(fns, g, s.value), LAMBDA c :
        IF c.it.exc # NoExc \/ ~truthy(c.v) \/ s.body = <<>> THEN c.it
        ELSE IF done >= GenMaxIters THEN Raise(c.it, Diverges)
        ELSE Bind(GenStmts(fns, c.it, s.body, 1), LAMBDA after :
             IF after.exc # NoExc THEN after
             ELSE GenWhile(fns, after, s, done + 1)))

\* python_gen.py 149-199: emit_stmt, by what the emitted lines do
GenStmt(fns, g, s) ==
    IF s.kind = "while" THEN GenWhile(fns, g, s, 0)
    ELSE IF s.kind = "return" /\ ~s.has_value
    THEN [g EXCEPT !.exc = ReturnSignal, !.ret = NoneV]
    ELSE Bind(GenExpr(fns, g, s.value), LAMBDA r :
         IF r.it.exc # NoExc THEN r.it
         ELSE IF s.kind = "assign"
         THEN [r.it EXCEPT !.frames = StoreSet(@, s.name, r.v)]
         ELSE IF s.kind = "show"
         THEN [r.it EXCEPT !.outputs = Append(@, Repr(r.v))]
         ELSE IF s.kind = "verify"
         THEN IF truthy(r.v) THEN r.it ELSE Raise(r.it, "RuntimeError")
         ELSE IF s.kind = "return"
         THEN [r.it EXCEPT !.exc = ReturnSignal, !.ret = r.v]
         ELSE IF s.kind = "if"
         THEN GenStmts(fns, r.it, IF truthy(r.v) THEN s.then ELSE s.else, 1)
         ELSE r.it)

\* python_gen.py 226-232: __hand_main
hand_main(mod) == GenStmts(mod.functions, NewGen, mod.toplevel, 1)

\* python_gen.py 234-237: what __hand_run_and_print_json prints
PrintedJson(g) == [key \in {"outputs"} |-> g.outputs]

(***************************************************************************)
(* equivalence_runner.py: run_equivalence for the python target            *)
(***************************************************************************)
\* Interpreter(inputs=inputs): the default limits (interpreter.py 84)
DefaultMaxSteps == 200000
DefaultMaxLoopIters == 1000000

\* dict.get: the entry, or Python's None
PyNone == [none |-> TRUE, val |-> <<>>]
PySome(v) == [none |-> FALSE, val |-> v]
JsonGet(obj, key) == IF key \in DOMAIN obj THEN PySome(obj[key]) ELSE PyNone

\* Python's == between two such values
PyObjEq(a, b) == a.none = b.none /\ (a.none \/ a.val = b.val)

Obs(omega, sigma) == [omega |-> omega, sigma |-> sigma]

NoObs == Obs(PyNone, PyNone)

\* equivalence_runner.py 83-91: lex and parse are behind the AST; typecheck,
\* then lower_program and the start of _run_ref
OracleCompile ==
    /\ or_pc = "start"
    /\ rt_pc = "idle"
    /\ IF typecheck(rt_items) # <<>>
       THEN /\ or_status' = "compile_error"
            /\ or_pc' = "done"
            /\ UNCHANGED <<or_ir, rt_pc>>
       ELSE /\ or_ir' = lower_program(rt_items)
            /\ or_pc' = "ref"
            /\ rt_pc' = "new"
            /\ UNCHANGED or_status
    /\ UNCHANGED <<or_ref_obs, or_gen>>
    /\ UNCHANGED <<rt_items, rt_inputs, rt_max_steps, rt_max_loop_iters, rt_top,
                   rt_functions, rt_k, rt_it>>
    /\ UNCHANGED <<capVars, lexVars, tcVars, parseVars, laterVars>>

\* equivalence_runner.py 55-60: _run_ref returns; any exception of the run
\* gives empty observations
OracleRef ==
    /\ or_pc = "ref"
    /\ rt_pc \in {"done", "failed", "crashed"}
    /\ or_ref_obs' = IF rt_pc = "done"
                     THEN Obs(PySome(rt_it.outputs), PySome(store_snapshot(rt_it)))
                     ELSE Obs(PySome(<<>>), PySome(EmptyStoreFrame))
    /\ or_pc' = "gen"
    /\ UNCHANGED <<or_ir, or_gen, or_status>>
    /\ UNCHANGED nonOrVars

\* equivalence_runner.py 111-126: gen_python, the run of the generated
\* program and the comparison
OracleGen ==
    /\ or_pc = "gen"
    /\ IF ~GenOk(or_ir)
       THEN /\ or_status' = "error"
            /\ UNCHANGED or_gen
       ELSE \E g \in {hand_main(or_ir)} :
                /\ or_gen' = g
                /\ or_status' =
                       IF g.exc # NoExc THEN "fail"
                       ELSE IF /\ PyObjEq(JsonGet(PrintedJson(g), "outputs"),
                                          or_ref_obs.omega)
                               /\ PyObjEq(JsonGet(PrintedJson(g), "store"),
                                          or_ref_obs.sigma)
                       THEN "pass"
                       ELSE "fail"
    /\ or_pc' = "done"
    /\ UNCHANGED <<or_ir, or_ref_obs>>
    /\ UNCHANGED nonOrVars

\* no oracle run
IdleOr ==
    /\ or_pc = "idle"
    /\ or_ir = lower_program(<<>>)
    /\ or_ref_obs = NoObs
    /\ or_gen = NewGen
    /\ or_status = ""

(***************************************************************************)
(* Inputs of the oracle                                                    *)
(***************************************************************************)
\* x: Int = 0
OrDecl == AssignStmt("x", TypeName("Int"), LitZero)
\* while x < 1: x = x + 1
OrWhile ==
    WhileStmt(Binary(Var("x"), "<", LitOne),
              <<Untyped("x", Binary(Var("x"), "+", LitOne))>>)
OrShowX == ShowStmt(Var("x"))
\* if true: x = 1
OrIfAssign == IfStmt(LitTrue, <<Untyped("x", LitOne)>>)
\* show "a\rb"
OrShowText ==
    ShowStmt(Literal("Text", StrV(<<"\"", "a", "\\", "r", "b", "\"">>)))
OrShowAsk == ShowStmt(AskP)

OrItemPool == {OrDecl, OrWhile, OrShowX, OrIfAssign, OrShowText, OrShowAsk, RtFunc}

OrPrograms == SeqsUpTo(OrItemPool, MaxRunItems)

(***************************************************************************)
(* cli.py: build() and main() of the compiler driver                       *)
(***************************************************************************)
Targets == {"python", "wasm", "sql", "html"}

\* cli.py 88-94: _target_outfile
target_outfile(target) ==
    CASE target = "python" -> "main.py"
      [] target = "wasm" -> "main.wat"
      [] target = "sql" -> "main.sql"
      [] OTHER -> "index.html"

\* cli.py 70-86: _expand_shorthand_caps, on the set of names
expand_shorthand_caps(caps) ==
    (caps \ {"io", "fs"})
    \cup (IF "io" \in caps THEN {"io.read", "io.write"} ELSE {})
    \cup (IF "fs" \in caps THEN {"fs.read", "fs.write"} ELSE {})

\* cli.py 107-127 and 267-287: the report at the start of build(), and the
\* one main() makes up after an exception
NewReport(diagnostics) ==
    [status |-> "error", diagnostics |-> diagnostics, outputs |-> <<>>,
     emitted_ir |-> "", emitted_ast |-> "", declared |-> {}]

\* one stage invocation: the diagnostics it returned, the exception it raised
StageCall(stage, diags, exc) == [stage |-> stage, diags |-> diags, exc |-> exc]

\* what lex, parse and typecheck can hand back to build()
LexOutcomes == {<<>>, <<"HND-INDENT-0001">>, <<"HND-LEX-0001", "HND-INDENT-0003">>}
ParseOutcomes == {<<>>, <<"HND-PARSE-0001">>, <<"HND-EXPR-0001", "HND-PARSE-0001">>}
TypecheckOutcomes == {<<>>, <<"HND-TC-0201">>, <<"HND-TC-0300", "HND-TC-0202">>}

\* enforce_capabilities(ir, supervision_level, approvals=None, scope="module"):
\* the code of the CapabilityError it raises, "" when it returns (ir, [])
EnforceModule(m, L) ==
    IF DeclaredMod(m) \ CANON_CAPS # {} THEN "HND-CAP-0001"
    ELSE IF required_caps_for_module(m) \ DeclaredMod(m) # {} THEN "HND-CAP-0201"
    ELSE FirstPolicyFailure(SortedCaps(required_caps_for_module(m)), L, {}).code

\* the exception a backend can raise on the module, "" for none.  gen_wat
\* refuses top-level statements, gen_sql and gen_html refuse functions; the
\* rest of their subset checks read parts of the IR that are not kept here,
\* so they are a free choice; gen_python raises ValueError on an operator or
\* node kind it has no spelling for.
BackendOutcomes(target, m) ==
    CASE target = "python" -> {"", "ValueError"}
      [] target = "wasm" ->
            IF m.toplevel # <<>> THEN {"WasmGenError"} ELSE {"", "WasmGenError"}
      [] target = "sql" ->
            IF m.functions # <<>> THEN {"SqlGenError"} ELSE {"", "SqlGenError"}
      [] OTHER ->
            IF m.functions # <<>> THEN {"HtmlGenError"} ELSE {"", "HtmlGenError"}

\* the modules lower_program hands to build(): nothing or one statement at top
\* level, with or without a function
BuildIrs ==
    { [capabilities |-> d, toplevel |-> t, functions |-> f, origin |-> "module"] :
        d \in DeclaredChoices, t \in {<<>>} \cup {<<st>> : st \in StmtPool},
        f \in FnSeqs }

BuildReturn(rc, report) ==
    /\ b_rc' = rc
    /\ b_report' = report
    /\ b_pc' = "returned"

BuildRest == <<b_target, b_level, b_emit_ir, b_emit_ast>>

\* cli.py 132-136
BuildLex ==
    /\ b_pc = "lex"
    /\ \E ldiags \in LexOutcomes :
        /\ b_calls' = Append(b_calls, StageCall("lex", ldiags, ""))
        /\ IF ldiags # <<>>
           THEN BuildReturn(2, [b_report EXCEPT !.diagnostics = @ \o ldiags])
           ELSE /\ b_report' = [b_report EXCEPT !.diagnostics = @ \o ldiags]
                /\ b_pc' = "parse"
                /\ UNCHANGED b_rc
    /\ UNCHANGED <<b_ir, b_files, BuildRest>>
    /\ UNCHANGED nonBuildVars

\* cli.py 138-151
BuildParse ==
    /\ b_pc = "parse"
    /\ \E pdiags \in ParseOutcomes :
        /\ b_calls' = Append(b_calls, StageCall("parse", pdiags, ""))
        /\ IF pdiags # <<>>
           THEN /\ BuildReturn(2, [b_report EXCEPT !.diagnostics = @ \o pdiags])
                /\ UNCHANGED b_files
           ELSE /\ b_report' =
                       [b_report EXCEPT !.diagnostics = @ \o pdiags,
                                        !.emitted_ast = IF b_emit_ast THEN "ast.json" ELSE @]
                /\ b_files' = IF b_emit_ast THEN b_files \cup {"ast.json"} ELSE b_files
                /\ b_pc' = "typecheck"
                /\ UNCHANGED b_rc
    /\ UNCHANGED <<b_ir, BuildRest>>
    /\ UNCHANGED nonBuildVars

\* cli.py 153-157
BuildTypecheck ==
    /\ b_pc = "typecheck"
    /\ \E tdiags \in TypecheckOutcomes :
        /\ b_calls' = Append(b_calls, StageCall("typecheck", tdiags, ""))
        /\ IF tdiags # <<>>
           THEN BuildReturn(2, [b_report EXCEPT !.diagnostics = @ \o tdiags])
           ELSE /\ b_report' = [b_report EXCEPT !.diagnostics = @ \o tdiags]
                /\ b_pc' = "lower"
                /\ UNCHANGED b_rc
    /\ UNCHANGED <<b_ir, b_files, BuildRest>>
    /\ UNCHANGED nonBuildVars

\* cli.py 159-172
BuildLower ==
    /\ b_pc = "lower"
    /\ \E m \in BuildIrs :
        /\ b_ir' = [m EXCEPT !.capabilities = expand_shorthand_caps(@)]
        /\ b_report' =
               [b_report EXCEPT !.declared = expand_shorthand_caps(m.capabilities),
                                !.emitted_ir = IF b_emit_ir THEN "ir.json" ELSE @]
    /\ b_calls' = Append(b_calls, StageCall("lower", <<>>, ""))
    /\ b_files' = IF b_emit_ir THEN b_files \cup {"ir.json"} ELSE b_files
    /\ b_pc' = "enforce"
    /\ UNCHANGED <<b_rc, BuildRest>>
    /\ UNCHANGED nonBuildVars

\* mutant: a CapabilityError is reported and the build goes on to the backend
BuildEnforce_Continues ==
    /\ b_pc = "enforce"
    /\ \E code \in {EnforceModule(b_ir, b_level)} :
        /\ b_calls' = Append(b_calls,
               StageCall("enforce", <<>>, IF code = "" THEN "" ELSE "CapabilityError"))
        /\ b_report' = [b_report EXCEPT
                            !.diagnostics = IF code = "" THEN @ ELSE Append(@, code),
                            !.declared = b_ir.capabilities]
        /\ b_pc' = "backend"
        /\ UNCHANGED b_rc
    /\ UNCHANGED <<b_ir, b_files, BuildRest>>
    /\ UNCHANGED nonBuildVars

\* cli.py 174-209: a CapabilityError becomes one diagnostic and exit code 2;
\* on return cap_diags is empty, so nothing is added and nothing is fatal
BuildEnforce ==
    /\ b_pc = "enforce"
    /\ \E code \in {EnforceModule(b_ir, b_level)} :
        /\ b_calls' = Append(b_calls,
               StageCall("enforce", <<>>, IF code = "" THEN "" ELSE "CapabilityError"))
        /\ IF code # ""
           THEN BuildReturn(2, [b_report EXCEPT !.diagnostics = Append(@, code)])
           ELSE /\ b_report' = [b_report EXCEPT !.declared = b_ir.capabilities]
                /\ b_pc' = "backend"
                /\ UNCHANGED b_rc
    /\ UNCHANGED <<b_ir, b_files, BuildRest>>
    /\ UNCHANGED nonBuildVars

\* cli.py 210-241: the backend of the target, then the artifact file.  An
\* exception that is none of the three *GenError classes leaves build()
BuildBackend ==
    /\ b_pc = "backend"
    /\ \E exc \in BackendOutcomes(b_target, b_ir) :
        /\ b_calls' = Append(b_calls, StageCall("backend", <<>>, exc))
        /\ IF exc = "ValueError"
           THEN /\ b_pc' = "raised"
                /\ UNCHANGED <<b_rc, b_report, b_files>>
           ELSE IF exc # ""
           THEN /\ BuildReturn(3, [b_report EXCEPT !.diagnostics = Append(@, exc)])
                /\ UNCHANGED b_files
           ELSE /\ BuildReturn(0, [b_report EXCEPT
                                      !.outputs = Append(@, target_outfile(b_target)),
                                      !.status = "ok"])
                /\ b_files' = b_files \cup {target_outfile(b_target)}
    /\ UNCHANGED <<b_ir, BuildRest>>
    /\ UNCHANGED nonBuildVars

\* cli.py 264-287: main() catches the exception: exit code 99 and a report
\* of its own
MainExcept ==
    /\ b_pc = "raised"
    /\ BuildReturn(99, NewReport(<<"Internal compiler error">>))
    /\ UNCHANGED <<b_ir, b_calls, b_files, BuildRest>>
    /\ UNCHANGED nonBuildVars

\* cli.py 289-307: build_report.json is written and the exit code returned
MainExit ==
    /\ b_pc = "returned"
    /\ b_files' = b_files \cup {"build_report.json"}
    /\ b_pc' = "exited"
    /\ UNCHANGED <<b_ir, b_calls, b_report, b_rc, BuildRest>>
    /\ UNCHANGED nonBuildVars

\* no build
IdleBuild ==
    /\ b_pc = "idle"
    /\ b_target = "python"
    /\ b_level = 2
    /\ b_emit_ir = FALSE
    /\ b_emit_ast = FALSE
    /\ b_ir = NoIR
    /\ b_calls = <<>>
    /\ b_report = NewReport(<<>>)
    /\ b_files = {}
    /\ b_rc = -1

(***************************************************************************)
(* transliterate.py: validate_translation(base_src, cand_src)              *)
(***************************************************************************)
\* a source line: its count of leading spaces and what follows them
\*   "blank"  : nothing but whitespace
\*   "header" : the canonical header of the description block
\*   "prose_a", "prose_b" : a word of natural language
\*   "show_a", "show_b"   : show "a", show "b"
\*   "tshow_a", "tshow_b" : show, the marker emoji, then "a" or "b"
\*   "mask"   : the empty string literal _mask_description writes
TrLine(indent, text) == [indent |-> indent, text |-> text]

TrTok(kind, value, line) == [kind |-> kind, value |-> value, line |-> line]

TRANSLATABLE_MARKER == "globe"

\* lexer.py 165-233: the tokens of the rest of a line
TrLineToks(text, li) ==
    CASE text = "header"  -> <<TrTok("EMOJI", "clipboard", li),
                               TrTok("IDENT", "DESCRIPCION", li),
                               TrTok("COLON", ":", li)>>
      [] text = "prose_a" -> <<TrTok("IDENT", "aa", li)>>
      [] text = "prose_b" -> <<TrTok("IDENT", "bb", li)>>
      [] text = "show_a"  -> <<TrTok("KEYWORD", "show", li), TrTok("STRING", "a", li)>>
      [] text = "show_b"  -> <<TrTok("KEYWORD", "show", li), TrTok("STRING", "b", li)>>
      [] text = "tshow_a" -> <<TrTok("KEYWORD", "show", li),
                               TrTok("EMOJI", TRANSLATABLE_MARKER, li),
                               TrTok("STRING", "a", li)>>
      [] text = "tshow_b" -> <<TrTok("KEYWORD", "show", li),
                               TrTok("EMOJI", TRANSLATABLE_MARKER, li),
                               TrTok("STRING", "b", li)>>
      [] text = "mask"    -> <<TrTok("STRING", "", li)>>

\* lexer.py 130-235: the lines from li on, with the tokens and the
\* diagnostics so far
RECURSIVE LexLines(_, _, _, _, _)
LexLines(lines, li, stack, toks, diags) ==
    IF li > Len(lines) THEN [stack |-> stack, toks |-> toks, diags |-> diags]
    ELSE IF lines[li].text = "blank"
    THEN LexLines(lines, li + 1, stack, Append(toks, TrTok("NEWLINE", "", li)), diags)
    ELSE Bind(IndentStep(lines[li].indent, stack, li),
              LAMBDA ind :
                LexLines(lines, li + 1, ind.stack,
                         toks \o [k \in 1..Len(ind.toks) |-> TrTok(ind.toks[k].kind, "", li)]
                              \o TrLineToks(lines[li].text, li)
                              \o <<TrTok("NEWLINE", "", li)>>,
                         diags \o ind.diags))

\* lexer.py 108-242: lex(src, filename), the tokens and the diagnostics
lex(lines) ==
    Bind(LexLines(lines, 1, <<0>>, <<>>, <<>>),
         LAMBDA r :
           [toks  |-> r.toks
                      \o [k \in 1..(Len(r.stack) - 1) |-> TrTok("DEDENT", "", Len(lines))]
                      \o <<TrTok("EOF", "", Len(lines) + 1)>>,
            diags |-> r.diags])

\* transliterate.py 78-88: the lines of the block from index j on
RECURSIVE BodyFrom(_, _)
BodyFrom(lines, j) ==
    IF j > Len(lines) THEN {}
    ELSE IF lines[j].text = "blank" \/ lines[j].indent >= 4
    THEN {j} \cup BodyFrom(lines, j + 1)
    ELSE {}

\* transliterate.py 54-89: _description_lines, 1-based line numbers
description_lines(lines) ==
    LET hs == {i \in 1..Len(lines) : lines[i].text = "header"}
    IN  IF hs = {} THEN {}
        ELSE BodyFrom(lines, (CHOOSE i \in hs : \A k \in hs : i <= k) + 1)

\* transliterate.py 94-113: _mask_description keeps the indentation
mask_description(lines, editable_lines) ==
    [i \in 1..Len(lines) |->
        IF i \in editable_lines /\ lines[i].text # "blank"
        THEN TrLine(lines[i].indent, "mask")
        ELSE lines[i]]

\* transliterate.py 116-131: the token before a STRING is the marker
\* (no token has the kind "NL", so none is skipped)
is_translatable_string(toks, idx) ==
    /\ toks[idx].kind = "STRING"
    /\ idx > 1
    /\ toks[idx - 1].kind = "EMOJI"
    /\ toks[idx - 1].value = TRANSLATABLE_MARKER

\* transliterate.py 178-184: the indices of the tokens kept
RECURSIVE filter_tokens(_, _, _)
filter_tokens(toks, editable_lines, i) ==
    IF i > Len(toks) THEN <<>>
    ELSE (IF toks[i].line \in editable_lines THEN <<>> ELSE <<i>>)
         \o filter_tokens(toks, editable_lines, i + 1)

\* transliterate.py 190-233: the lockstep walk over the kept tokens
RECURSIVE CompareKept(_, _, _, _, _)
CompareKept(btoks, bkept, ctoks, ckept, n) ==
    IF n > Len(bkept) \/ n > Len(ckept)
    THEN (IF Len(bkept) # Len(ckept)
          THEN <<"Token stream length differs">> ELSE <<>>)
    ELSE IF btoks[bkept[n]].kind # ctoks[ckept[n]].kind
    THEN <<"Token kind mismatch">>
    ELSE IF btoks[bkept[n]].kind = "STRING"
    THEN (IF is_translatable_string(btoks, bkept[n])
             /\ is_translatable_string(ctoks, ckept[n])
          THEN CompareKept(btoks, bkept, ctoks, ckept, n + 1)
          ELSE IF btoks[bkept[n]].value # ctoks[ckept[n]].value
          THEN <<"Unmarked string literal changed">>
          ELSE CompareKept(btoks, bkept, ctoks, ckept, n + 1))
    ELSE IF btoks[bkept[n]].value # ctoks[ckept[n]].value
    THEN <<"Token value mismatch">>
    ELSE CompareKept(btoks, bkept, ctoks, ckept, n + 1)

\* transliterate.py 141-142: DESCRIPTION_HEADER in src.splitlines()
HasHeader(lines) == \E i \in 1..Len(lines) : lines[i] = TrLine(0, "header")

\* transliterate.py 137-166: the header's presence, masking and lexing
ValidateLex ==
    /\ tr_pc = "start"
    /\ IF HasHeader(tr_base) # HasHeader(tr_cand)
       THEN /\ tr_violations' = <<"DESCRIPCION block presence differs">>
            /\ tr_pc' = "done"
            /\ UNCHANGED tr_toks
       ELSE \E b \in {lex(mask_description(tr_base, description_lines(tr_base)))} :
            \E c \in {lex(mask_description(tr_cand, description_lines(tr_cand)))} :
              IF b.diags # <<>>
              THEN /\ tr_violations' = <<"Base lex errors">>
                   /\ tr_pc' = "done"
                   /\ UNCHANGED tr_toks
              ELSE IF c.diags # <<>>
              THEN /\ tr_violations' = <<"Candidate lex errors">>
                   /\ tr_pc' = "done"
                   /\ UNCHANGED tr_toks
              ELSE /\ tr_toks' = <<b.toks, c.toks>>
                   /\ tr_pc' = "compare"
                   /\ UNCHANGED tr_violations
    /\ UNCHANGED <<tr_base, tr_cand>>
    /\ UNCHANGED nonTrVars

\* transliterate.py 168-246: the comparison of the kept tokens; the header
\* lines compared at 237-244 are both the canonical header once stripped
ValidateCompare ==
    /\ tr_pc = "compare"
    /\ tr_violations' =
         CompareKept(tr_toks[1], filter_tokens(tr_toks[1], description_lines(tr_base), 1),
                     tr_toks[2], filter_tokens(tr_toks[2], description_lines(tr_cand), 1), 1)
    /\ tr_pc' = "done"
    /\ UNCHANGED <<tr_base, tr_cand, tr_toks>>
    /\ UNCHANGED nonTrVars

\* no validation
IdleTr ==
    /\ tr_pc = "idle"
    /\ tr_base = <<>>
    /\ tr_cand = <<>>
    /\ tr_toks = <<>>
    /\ tr_violations = <<>>

(***************************************************************************)
(* Inputs of the validator                                                 *)
(***************************************************************************)
MaxTrLines == 3

TrLinePool ==
    {TrLine(0, "header"), TrLine(0, "blank"),
     TrLine(4, "prose_a"), TrLine(4, "prose_b"), TrLine(8, "prose_a"),
     TrLine(0, "show_a"), TrLine(0, "show_b"),
     TrLine(0, "tshow_a"), TrLine(0, "tshow_b")}

TrSources == SeqsUpTo(TrLinePool, MaxTrLines) \ {<<>>}

\* the sources one line away from src: a line replaced, inserted or deleted
OneEdit(src) ==
    {[src EXCEPT ![i] = ln] : i \in 1..Len(src), ln \in TrLinePool}
    \cup {SubSeq(src, 1, i) \o <<ln>> \o SubSeq(src, i + 1, Len(src)) :
            i \in 0..Len(src), ln \in TrLinePool}
    \cup {SubSeq(src, 1, i - 1) \o SubSeq(src, i + 1, Len(src)) : i \in 1..Len(src)}
(***************************************************************************)
(* lowering.py: lower_program with identifiers, effects and capabilities   *)
(***************************************************************************)
\* a lowered statement: id is the n of "N<n>" in origin.ref
LoweredStmt(kind, id, effects, capabilities, then, else, body) ==
    [kind |-> kind, id |-> id, effects |-> effects, capabilities |-> capabilities,
     then |-> then, else |-> else, body |-> body]

\* the effect and capability names lower_stmt writes, in the order of
\* Python's sorted(); SortedNamesFrom(S, 1) is sorted(set(...))
LowNameOrder == <<"contract.verify", "control.return", "io", "io.show">>

RECURSIVE SortedNamesFrom(_, _)
SortedNamesFrom(S, i) ==
    IF i > Len(LowNameOrder) THEN <<>>
    ELSE (IF LowNameOrder[i] \in S THEN <<LowNameOrder[i]>> ELSE <<>>)
         \o SortedNamesFrom(S, i + 1)

\* lowering.py 104-182: lower_stmt(s, ids) with ids.n = n at the call; the
\* result carries the statement and ids.n afterwards.  LowerList is a list
\* comprehension [lower_stmt(x, ids) for x in ss].
RECURSIVE LowerStmt(_, _)
RECURSIVE LowerList(_, _, _)
LowerStmt(s, n) ==
    IF s.node = "ShowStmt"
    THEN [st |-> LoweredStmt("show", n + 1, <<"io.show">>, <<"io">>, <<>>, <<>>, <<>>),
          n |-> n + 1]
    ELSE IF s.node = "VerifyStmt"
    THEN [st |-> LoweredStmt("verify", n + 1, <<"contract.verify">>, <<>>, <<>>, <<>>, <<>>),
          n |-> n + 1]
    ELSE IF s.node = "ReturnStmt"
    THEN [st |-> LoweredStmt("return", n + 1, <<"control.return">>, <<>>, <<>>, <<>>, <<>>),
          n |-> n + 1]
    ELSE IF s.node = "IfStmt"
    THEN Bind(LowerList(s.then_body, n + 1, <<>>),
              LAMBDA t :
                Bind(LowerList(s.else_body, t.n, <<>>),
                     LAMBDA e :
                       [st |-> LoweredStmt("if", n + 1, <<>>, <<>>, t.sts, e.sts, <<>>),
                        n |-> e.n]))
    ELSE IF s.node = "WhileStmt"
    THEN Bind(LowerList(s.then_body, n + 1, <<>>),
              LAMBDA b :
                [st |-> LoweredStmt("while", n + 1, <<>>, <<>>, <<>>, <<>>, b.sts),
                 n |-> b.n])
    ELSE [st |-> LoweredStmt(IF s.node = "AssignStmt" THEN "assign" ELSE "expr",
                        n + 1, <<>>, <<>>, <<>>, <<>>, <<>>),
          n |-> n + 1]

LowerList(ss, n, acc) ==
    IF ss = <<>> THEN [sts |-> acc, n |-> n]
    ELSE Bind(LowerStmt(Head(ss), n),
              LAMBDA r : LowerList(Tail(ss), r.n, Append(acc, r.st)))

\* lowering.py 194-202: walk_stmt, the values of one key ("effects" or
\* "capabilities") met in the statement and below it
RECURSIVE walk_stmt(_, _)
walk_stmt(st, key) ==
    LET below == st.then \o st.else \o st.body
    IN  Range(st[key]) \cup UNION {walk_stmt(below[k], key) : k \in 1..Len(below)}

WalkBody(body, key) == UNION {walk_stmt(body[k], key) : k \in 1..Len(body)}

\* lowering.py 188-226: lower_function(fn, ids); the parameters take their
\* identifiers after the body
LowerFunction(fn, n) ==
    Bind(LowerList(fn.then_body, n + 1, <<>>),
         LAMBDA b :
           [fn |-> [name |-> fn.name,
                    id |-> n + 1,
                    params |-> [k \in 1..Len(fn.params) |->
                                  [name |-> fn.params[k].name, id |-> b.n + k]],
                    body |-> b.sts,
                    effects |-> SortedNamesFrom(WalkBody(b.sts, "effects"), 1),
                    capabilities |-> SortedNamesFrom(WalkBody(b.sts, "capabilities"), 1)],
            n |-> b.n + Len(fn.params)])

\* the capabilities of the statements of a list themselves
OwnCaps(sts) == UNION {Range(sts[k].capabilities) : k \in 1..Len(sts)}

\* mutant: the identifier source outlives the call
LowerStart_SharedCounter ==
    /\ lw_pc \in {"start", "returned"}
    /\ Len(lw_results) < 2
    /\ lw_pc' = "items"
    /\ lw_i' = 1
    /\ lw_top' = <<>>
    /\ lw_fns' = <<>>
    /\ lw_caps' = {}
    /\ UNCHANGED <<lw_program, lw_n, lw_results>>
    /\ UNCHANGED nonLwVars

\* lowering.py 229-232: ids=_IdGen(); top=[]; fns=[]; caps=set()
LowerStart ==
    /\ lw_pc \in {"start", "returned"}
    /\ Len(lw_results) < 2
    /\ lw_pc' = "items"
    /\ lw_i' = 1
    /\ lw_n' = 0
    /\ lw_top' = <<>>
    /\ lw_fns' = <<>>
    /\ lw_caps' = {}
    /\ UNCHANGED <<lw_program, lw_results>>
    /\ UNCHANGED nonLwVars

\* lowering.py 233-251: one iteration of `for item in program.items`
LowerItem ==
    /\ lw_pc = "items"
    /\ lw_i <= Len(lw_program)
    /\ LET item == lw_program[lw_i]
       IN  IF item.node = "Section"
           THEN \E r \in {LowerList(item.then_body, lw_n, <<>>)} :
                  /\ lw_top' = lw_top \o r.sts
                  /\ lw_caps' = lw_caps \cup OwnCaps(r.sts)
                  /\ lw_n' = r.n
                  /\ UNCHANGED lw_fns
           ELSE IF item.node = "FuncDef"
           THEN \E r \in {LowerFunction(item, lw_n)} :
                  /\ lw_fns' = Append(lw_fns, r.fn)
                  /\ lw_caps' = lw_caps \cup Range(r.fn.capabilities)
                  /\ lw_n' = r.n
                  /\ UNCHANGED lw_top
           ELSE \E r \in {LowerStmt(item, lw_n)} :
                  /\ lw_top' = Append(lw_top, r.st)
                  /\ lw_caps' = lw_caps \cup Range(r.st.capabilities)
                  /\ lw_n' = r.n
                  /\ UNCHANGED lw_fns
    /\ lw_i' = lw_i + 1
    /\ UNCHANGED <<lw_pc, lw_program, lw_results>>
    /\ UNCHANGED nonLwVars

\* lowering.py 253-264: the IR returned
LowerReturn ==
    /\ lw_pc = "items"
    /\ lw_i > Len(lw_program)
    /\ lw_results' = Append(lw_results,
                            [functions |-> lw_fns, toplevel |-> lw_top,
                             capabilities |-> SortedNamesFrom(lw_caps, 1)])
    /\ lw_pc' = "returned"
    /\ UNCHANGED <<lw_program, lw_i, lw_n, lw_top, lw_fns, lw_caps>>
    /\ UNCHANGED nonLwVars

\* no lowering
IdleLw ==
    /\ lw_pc = "idle"
    /\ lw_program = <<>>
    /\ lw_i = 0
    /\ lw_n = 0
    /\ lw_top = <<>>
    /\ lw_fns = <<>>
    /\ lw_caps = {}
    /\ lw_results = <<>>

(***************************************************************************)
(* Inputs of the lowering                                                  *)
(***************************************************************************)
MaxLowItems == 3

LwShow == ShowStmt(Literal("Int", IntV(1)))
LwAssign == AssignStmt("x", NoTypeExpr, Literal("Int", IntV(1)))
LwVerify == VerifyStmt(Literal("Bool", BoolV(TRUE)))
LwReturn == ReturnStmt(NoneExpr)
LwIf == IfElseStmt(Literal("Bool", BoolV(TRUE)), <<LwShow, LwAssign>>, <<LwVerify>>)
LwWhile == WhileStmt(Literal("Bool", BoolV(FALSE)), <<IfStmt(Var("x"), <<LwShow>>)>>)

LwItemPool ==
    {LwShow, LwAssign, LwVerify, LwIf, LwWhile,
     Section(<<LwAssign, LwIf>>),
     FuncDef("f", <<Param("a", NoTypeExpr), Param("b", NoTypeExpr)>>, NoTypeExpr,
             <<LwIf, LwReturn>>),
     FuncDef("g", <<>>, NoTypeExpr, <<LwWhile, LwVerify>>)}

LwPrograms == SeqsUpTo(LwItemPool, MaxLowItems)
(***************************************************************************)
(* interpreter.py: Interpreter._eval_bin on its own                        *)
(***************************************************************************)
\* interpreter.py 227-250: one call _eval_bin(a, op, b)
EvalBinCall ==
    /\ eb_pc = "call"
    /\ \E r \in {eval_bin(NewInterpreter, eb_a, eb_op, eb_b)} :
         eb_out' = [exc |-> r.it.exc, v |-> r.v]
    /\ eb_pc' = "done"
    /\ UNCHANGED <<eb_a, eb_op, eb_b>>
    /\ UNCHANGED nonEbVars

\* no call
IdleEb ==
    /\ eb_pc = "idle"
    /\ eb_a = NoneV
    /\ eb_op = ""
    /\ eb_b = NoneV
    /\ eb_out = [exc |-> NoExc, v |-> NoneV]

\* the operands: Int, Bool, Text and Null values
EbValues ==
    {IntV(0), IntV(1), IntV(2), BoolV(TRUE), BoolV(FALSE),
     StrV(<<"1">>), StrV(<<>>), StrV(<<"t", "r", "u", "e">>), NoneV}

EbOps == {"==", "!=", "<", "<=", ">", ">=", "+", "-", "*", "/", "%", "and"}

(***************************************************************************)
(* wasm_gen.py: gen_wat(ir)                                                *)
(***************************************************************************)
\* an IR statement as gen_wat reads it; declared_type and the types of
\* parameters, results and literals are the "kind" of the IR type, "" when
\* there is none; has_value is `value is not None`
WStmt(kind, name, declared_type, value, has_value, effects, then, else, body) ==
    [kind |-> kind, name |-> name, declared_type |-> declared_type,
     value |-> value, has_value |-> has_value, effects |-> effects,
     then |-> then, else |-> else, body |-> body]

WFn(name, params, ret_type, body) ==
    [name |-> name, params |-> params, ret_type |-> ret_type, body |-> body]

\* what an emitter gives back: the WasmGenError code ("" is none) and the
\* instructions, by their mnemonics
WOut(err, out) == [err |-> err, out |-> out]

\* wasm_gen.py 28-36: _ensure_i32_type, the code it raises with
ensure_i32_type(k) == IF k \in {"", "Int", "Bool"} THEN "" ELSE "WASM-0300"

\* wasm_gen.py 136-140: opmap
WasmOpmap(op) ==
    CASE op = "+" -> "i32.add" [] op = "-" -> "i32.sub" [] op = "*" -> "i32.mul"
      [] op = "/" -> "i32.div_s" [] op = "==" -> "i32.eq" [] op = "!=" -> "i32.ne"
      [] op = "<" -> "i32.lt_s" [] op = "<=" -> "i32.le_s" [] op = ">" -> "i32.gt_s"
      [] op = ">=" -> "i32.ge_s" [] op = "and" -> "i32.and" [] op = "or" -> "i32.or"
      [] OTHER -> ""

\* r, then what follows it unless r raised
Then(r, F(_)) == Bind(r, LAMBDA x : IF x.err # "" THEN x ELSE F(x))

\* wasm_gen.py 97-154: emit_expr; a str literal that is neither true, false
\* nor decimal digits makes int() raise ValueError
RECURSIVE wasm_emit_expr(_, _)
RECURSIVE WasmEmitArgs(_, _, _)
wasm_emit_expr(fn_names, expr) ==
    IF expr.kind = "lit"
    THEN IF ensure_i32_type(expr.type) # "" THEN WOut(ensure_i32_type(expr.type), <<>>)
         ELSE IF expr.value.t = "str"
                 /\ expr.value.s \notin {<<"t", "r", "u", "e">>, <<"f", "a", "l", "s", "e">>}
                 /\ ~(expr.value.s # <<>>
                      /\ \A k \in 1..Len(expr.value.s) :
                           expr.value.s[k] \in {"0", "1", "2", "3", "4", "5", "6", "7", "8", "9"})
         THEN WOut("ValueError", <<>>)
         ELSE IF expr.value = NoneV THEN WOut("WASM-0301", <<>>)
         ELSE WOut("", <<"i32.const">>)
    ELSE IF expr.kind = "var" THEN WOut("", <<"local.get">>)
    ELSE IF expr.kind = "unary"
    THEN IF expr.op = "-"
         THEN Then(wasm_emit_expr(fn_names, expr.args[1]),
                   LAMBDA r : WOut("", <<"i32.const">> \o r.out \o <<"i32.sub">>))
         ELSE IF expr.op = "not"
         THEN Then(wasm_emit_expr(fn_names, expr.args[1]),
                   LAMBDA r : WOut("", r.out \o <<"i32.eqz">>))
         ELSE WOut("WASM-0400", <<>>)
    ELSE IF expr.kind = "binary"
    THEN Then(WasmEmitArgs(fn_names, expr.args, <<>>),
              LAMBDA r : IF WasmOpmap(expr.op) = "" THEN WOut("WASM-0401", <<>>)
                         ELSE WOut("", r.out \o <<WasmOpmap(expr.op)>>))
    ELSE IF expr.kind = "call"
    THEN IF expr.name \notin fn_names THEN WOut("WASM-0500", <<>>)
         ELSE Then(WasmEmitArgs(fn_names, expr.args, <<>>),
                   LAMBDA r : WOut("", r.out \o <<"call">>))
    ELSE WOut("WASM-0999", <<>>)

WasmEmitArgs(fn_names, args, out) ==
    IF args = <<>> THEN WOut("", out)
    ELSE Then(wasm_emit_expr(fn_names, Head(args)),
              LAMBDA r : WasmEmitArgs(fn_names, Tail(args), out \o r.out))

\* wasm_gen.py 156-199: emit_stmt; the declared type of an assignment is
\* not read
RECURSIVE wasm_emit_stmt(_, _)
RECURSIVE WasmEmitBody(_, _, _)
wasm_emit_stmt(fn_names, st) ==
    IF st.kind = "assign"
    THEN Then(wasm_emit_expr(fn_names, st.value),
              LAMBDA r : WOut("", r.out \o <<"local.set">>))
    ELSE IF st.kind = "expr"
    THEN Then(wasm_emit_expr(fn_names, st.value),
              LAMBDA r : WOut("", r.out \o <<"drop">>))
    ELSE IF st.kind = "return"
    THEN IF ~st.has_value THEN WOut("", <<"i32.const", "return">>)
         ELSE Then(wasm_emit_expr(fn_names, st.value),
                   LAMBDA r : WOut("", r.out \o <<"return">>))
    ELSE IF st.kind = "if"
    THEN Then(wasm_emit_expr(fn_names, st.value),
              LAMBDA c :
                Then(WasmEmitBody(fn_names, st.then, c.out \o <<"if">>),
                     LAMBDA t :
                       IF st.else = <<>> THEN WOut("", t.out \o <<"end">>)
                       ELSE Then(WasmEmitBody(fn_names, st.else, t.out \o <<"else">>),
                                 LAMBDA e : WOut("", e.out \o <<"end">>))))
    ELSE IF st.kind = "while"
    THEN Then(wasm_emit_expr(fn_names, st.value),
              LAMBDA c :
                Then(WasmEmitBody(fn_names, st.body,
                                  <<"block", "loop">> \o c.out \o <<"i32.eqz", "br_if">>),
                     LAMBDA b : WOut("", b.out \o <<"br", "end", "end">>)))
    ELSE WOut("WASM-0600", <<>>)

WasmEmitBody(fn_names, sts, out) ==
    IF sts = <<>> THEN WOut("", out)
    ELSE Then(wasm_emit_stmt(fn_names, Head(sts)),
              LAMBDA r : WasmEmitBody(fn_names, Tail(sts), out \o r.out))

\* wasm_gen.py 46-62: the first refusal over the statements of the bodies
\* themselves, "" when there is none
RECURSIVE RequirePureBody(_)
RequirePureBody(sts) ==
    IF sts = <<>> THEN ""
    ELSE IF \E k \in 1..Len(Head(sts).effects) :
              Head(sts).effects[k] \notin {"contract.verify", "control.return"}
    THEN "WASM-0200"
    ELSE IF Head(sts).kind \in {"show", "verify"} THEN "WASM-0201"
    ELSE RequirePureBody(Tail(sts))

RECURSIVE RequirePureFns(_)
RequirePureFns(fns) ==
    IF fns = <<>> THEN ""
    ELSE IF RequirePureBody(Head(fns).body) # "" THEN RequirePureBody(Head(fns).body)
    ELSE RequirePureFns(Tail(fns))

\* wasm_gen.py 38-62: _require_pure_subset, the code it raises with
require_pure_subset(m) ==
    IF m.toplevel # <<>> THEN "WASM-0100" ELSE RequirePureFns(m.functions)

\* the first parameter type _ensure_i32_type refuses
RECURSIVE ParamsRefused(_)
ParamsRefused(params) ==
    IF params = <<>> THEN ""
    ELSE IF ensure_i32_type(Head(params).type) # "" THEN ensure_i32_type(Head(params).type)
    ELSE ParamsRefused(Tail(params))

\* wasm_gen.py 83-95: the version check (every IR of the model is 0.1.0),
\* _require_pure_subset and the module header
GenWatRequire ==
    /\ wg_pc = "start"
    /\ IF require_pure_subset(wg_ir) # ""
       THEN /\ wg_pc' = "raised"
            /\ wg_err' = require_pure_subset(wg_ir)
            /\ UNCHANGED <<wg_k, wg_lines>>
       ELSE /\ wg_pc' = "functions"
            /\ wg_k' = 1
            /\ wg_lines' = <<"(module", "(memory">>
            /\ UNCHANGED wg_err
    /\ UNCHANGED wg_ir
    /\ UNCHANGED nonWgVars

\* wasm_gen.py 201-237: one iteration of `for fn in mod.get("functions")`
GenWatFunction ==
    /\ wg_pc = "functions"
    /\ wg_k <= Len(wg_ir.functions)
    /\ LET fn == wg_ir.functions[wg_k]
           fn_names == {wg_ir.functions[k].name : k \in 1..Len(wg_ir.functions)}
       IN  IF ParamsRefused(fn.params) # "" \/ ensure_i32_type(fn.ret_type) # ""
           THEN /\ wg_pc' = "raised"
                /\ wg_err' = "WASM-0300"
                /\ UNCHANGED <<wg_k, wg_lines>>
           ELSE \E r \in {WasmEmitBody(fn_names, fn.body, <<>>)} :
                  IF r.err # ""
                  THEN /\ wg_pc' = "raised"
                       /\ wg_err' = r.err
                       /\ UNCHANGED <<wg_k, wg_lines>>
                  ELSE /\ wg_lines' = wg_lines \o <<"(func">> \o r.out
                                        \o <<"i32.const", "return", ")", "(export">>
                       /\ wg_k' = wg_k + 1
                       /\ UNCHANGED <<wg_pc, wg_err>>
    /\ UNCHANGED wg_ir
    /\ UNCHANGED nonWgVars

\* wasm_gen.py 239-240: the closing line and the return
GenWatReturn ==
    /\ wg_pc = "functions"
    /\ wg_k > Len(wg_ir.functions)
    /\ wg_lines' = Append(wg_lines, ")")
    /\ wg_pc' = "returned"
    /\ UNCHANGED <<wg_ir, wg_k, wg_err>>
    /\ UNCHANGED nonWgVars

\* no generation
IdleWg ==
    /\ wg_pc = "idle"
    /\ wg_ir = [functions |-> <<>>, toplevel |-> <<>>]
    /\ wg_k = 0
    /\ wg_lines = <<>>
    /\ wg_err = ""

(***************************************************************************)
(* Inputs of gen_wat: IRs as lower_program writes them                     *)
(***************************************************************************)
MaxWasmBody == 2

WLit(type, value) == IrExpr("lit", type, value, "", "", <<>>)
WOne == WLit("Int", IntV(1))
WCallOf(callee) == IrExpr("call", "", NoneV, callee, "", <<>>)

WAssign(declared_type, value) ==
    WStmt("assign", "x", declared_type, value, TRUE, <<>>, <<>>, <<>>, <<>>)
WExprSt(value) == WStmt("expr", "", "", value, TRUE, <<>>, <<>>, <<>>, <<>>)
WShow == WStmt("show", "", "", WOne, TRUE, <<"io.show">>, <<>>, <<>>, <<>>)
WVerify == WStmt("verify", "", "", WOne, TRUE, <<"contract.verify">>, <<>>, <<>>, <<>>)
WReturn(value) ==
    WStmt("return", "", "", value, TRUE, <<"control.return">>, <<>>, <<>>, <<>>)
WIf(then, else) == WStmt("if", "", "", WLit("Bool", BoolV(TRUE)), TRUE, <<>>, then, else, <<>>)
WWhile(body) == WStmt("while", "", "", WLit("Bool", BoolV(FALSE)), TRUE, <<>>, <<>>, <<>>, body)

WStmtPool ==
    {WAssign("", WOne), WAssign("Int", WOne), WAssign("Text", WOne),
     WAssign("", WLit("Text", StrV(<<"a">>))), WAssign("", IrNullLit),
     WExprSt(WCallOf("f")), WExprSt(WCallOf("ask")),
     WShow, WVerify,
     WReturn(IrExpr("binary", "", NoneV, "", "+", <<WOne, IrExpr("var", "", NoneV, "a", "", <<>>)>>)),
     WIf(<<WAssign("", WOne)>>, <<WShow>>),
     WIf(<<WWhile(<<WVerify>>)>>, <<>>),
     WWhile(<<WExprSt(WCallOf("ask"))>>),
     WWhile(<<WAssign("Float", WOne)>>)}

WFnPool ==
    {WFn("f", <<[name |-> "a", type |-> pt]>>, rt, body) :
        pt \in {"", "Int", "Text"}, rt \in {"", "Bool", "Float"},
        body \in SeqsUpTo(WStmtPool, MaxWasmBody)}

WasmIrs ==
    {[functions |-> <<fn>>, toplevel |-> top] :
        fn \in WFnPool, top \in {<<>>, <<WAssign("", WOne)>>}}
    \cup {[functions |-> <<>>, toplevel |-> top] : top \in {<<>>, <<WShow>>}}

\* the later components before any call
(***************************************************************************)
(* handc_parser_v0_1: lex, parse and format_hand, character by character.  *)
(* A text is a sequence of characters; "q" is the double quote, "bs" the   *)
(* backslash, "sp" the space, "tab", "cr" and "lf" the control characters, *)
(* "n", "t" and "r" the letters, and "show" and "null" stand for the       *)
(* letters of these two keywords.  The texts here hold no emoji, digit,    *)
(* operator or punctuation, and no line of them begins with a space.       *)
(***************************************************************************)
FmTok(kind, value) == [kind |-> kind, value |-> value]
FmOut(toks, diags) == [toks |-> toks, diags |-> diags]
FmCat(a, b) == FmOut(a.toks \o b.toks, a.diags \o b.diags)

\* _re_ident_uni: the characters an identifier is made of
IdentChars == {"n", "t", "r", "show", "null"}

\* lexer.py 94: text.replace("\r\n","\n").replace("\r","\n")
NormalizeNewlines(text) ==
    LET keep == {k \in 1..Len(text) :
                    ~(text[k] = "cr" /\ k < Len(text) /\ text[k + 1] = "lf")}
        F[k \in 0..Len(text)] ==
            IF k = 0 THEN <<>>
            ELSE IF k \in keep
                 THEN Append(F[k - 1], IF text[k] = "cr" THEN "lf" ELSE text[k])
                 ELSE F[k - 1]
    IN  F[Len(text)]

\* the first line feed of a text that has one
FirstLf(text) ==
    CHOOSE k \in 1..Len(text) :
        text[k] = "lf" /\ \A j \in 1..(k - 1) : text[j] # "lf"

\* str.split("\n")
RECURSIVE SplitLf(_)
SplitLf(text) ==
    IF \A k \in 1..Len(text) : text[k] # "lf" THEN <<text>>
    ELSE <<SubSeq(text, 1, FirstLf(text) - 1)>>
         \o SplitLf(SubSeq(text, FirstLf(text) + 1, Len(text)))

\* lexer.py 96-100: the lines of the text
TextLines(text) ==
    IF text # <<>> /\ text[Len(text)] = "lf"
    THEN SplitLf(SubSeq(text, 1, Len(text) - 1))
    ELSE SplitLf(text)

\* _re_string = "([^"\\]|\\.)*" matched from the character after the opening
\* quote: the index of the closing quote, 0 when there is no match
RECURSIVE re_string_scan(_, _)
re_string_scan(line, j) ==
    IF j > Len(line) THEN 0
    ELSE IF line[j] = "q" THEN j
    ELSE IF line[j] = "bs"
         THEN IF j + 1 > Len(line) THEN 0 ELSE re_string_scan(line, j + 2)
    ELSE re_string_scan(line, j + 1)

re_string(line, i) == IF line[i] = "q" THEN re_string_scan(line, i + 1) ELSE 0

\* the last character of the identifier that starts at i
RECURSIVE IdentEnd(_, _)
IdentEnd(line, i) ==
    IF i + 1 <= Len(line) /\ line[i + 1] \in IdentChars
    THEN IdentEnd(line, i + 1) ELSE i

\* lexer.py 195-196: kind=TK_KEYWORD if ident in KEYWORDS else TK_IDENT
IdentTok(ident) ==
    FmTok(IF ident \in {<<"show">>, <<"null">>} THEN "KEYWORD" ELSE "IDENT", ident)

\* lexer.py 168-233: while i < len(line), one token or one diagnostic a turn
RECURSIVE LexChars(_, _)
LexChars(line, i) ==
    IF i > Len(line) THEN FmOut(<<>>, <<>>)
    ELSE IF line[i] = "sp" THEN LexChars(line, i + 1)
    ELSE IF re_string(line, i) # 0
         THEN FmCat(FmOut(<<FmTok("STRING", SubSeq(line, i, re_string(line, i)))>>, <<>>),
                    LexChars(line, re_string(line, i) + 1))
    ELSE IF line[i] \in IdentChars
         THEN FmCat(FmOut(<<IdentTok(SubSeq(line, i, IdentEnd(line, i)))>>, <<>>),
                    LexChars(line, IdentEnd(line, i) + 1))
    ELSE FmCat(FmOut(<<>>, <<"HND-LEX-0001">>), LexChars(line, i + 1))

\* lexer.py 130-235: one line -- tabs are forbidden anywhere in it, a line of
\* white space is a NEWLINE, any other line its tokens and a NEWLINE
LexOneLine(line) ==
    FmCat(FmOut(<<>>, IF \E k \in 1..Len(line) : line[k] = "tab"
                      THEN <<"HND-LEX-0002">> ELSE <<>>),
          IF \A k \in 1..Len(line) : line[k] \in {"sp", "tab"}
          THEN FmOut(<<FmTok("NEWLINE", <<>>)>>, <<>>)
          ELSE FmCat(LexChars(line, 1), FmOut(<<FmTok("NEWLINE", <<>>)>>, <<>>)))

RECURSIVE LexLinesOf(_)
LexLinesOf(lines) ==
    IF lines = <<>> THEN FmOut(<<>>, <<>>)
    ELSE FmCat(LexOneLine(Head(lines)), LexLinesOf(Tail(lines)))

\* lexer.py 85-242: lex(text)
LexText(text) ==
    FmCat(LexLinesOf(TextLines(NormalizeNewlines(text))),
          FmOut(<<FmTok("EOF", <<>>)>>, <<>>))

\* ast.py: the nodes these texts parse to
FmLiteral(kind, value) == [node |-> "Literal", kind |-> kind, value |-> value]
FmVar(name) == [node |-> "Var", kind |-> "", value |-> name]
FmStmt(node, expr) == [node |-> node, expr |-> expr]

\* parser.py 288-318: the value of a string token
RECURSIVE UnescapeRaw(_, _)
UnescapeRaw(raw, k) ==
    IF k > Len(raw) THEN <<>>
    ELSE IF raw[k] # "bs" THEN <<raw[k]>> \o UnescapeRaw(raw, k + 1)
    ELSE IF k + 1 > Len(raw) THEN <<"bs">>
    ELSE (CASE raw[k + 1] = "n" -> <<"lf">>
            [] raw[k + 1] = "t" -> <<"tab">>
            [] raw[k + 1] = "r" -> <<"cr">>
            [] raw[k + 1] = "bs" -> <<"bs">>
            [] raw[k + 1] = "q" -> <<"q">>
            [] OTHER -> <<"bs", raw[k + 1]>>)
         \o UnescapeRaw(raw, k + 2)

\* parser.py 50-52: _peek
FmPeek(toks, i) == toks[IF i < Len(toks) THEN i ELSE Len(toks)]
\* parser.py 60-63: _take, the cursor after it (1-based here)
FmTake(toks, i) == IF i + 1 <= Len(toks) + 1 THEN i + 1 ELSE Len(toks) + 1

\* parser.py 277-357: _parse_primary at cursor i
ParsePrimary(toks, i) ==
    CASE FmPeek(toks, i).kind = "STRING" ->
            [expr |-> FmLiteral("Text",
                        UnescapeRaw(SubSeq(FmPeek(toks, i).value, 2,
                                           Len(FmPeek(toks, i).value) - 1), 1)),
             i |-> FmTake(toks, i), diags |-> <<>>]
      [] FmPeek(toks, i) = FmTok("KEYWORD", <<"null">>) ->
            [expr |-> FmLiteral("Null", <<>>), i |-> FmTake(toks, i), diags |-> <<>>]
      [] FmPeek(toks, i).kind = "IDENT" ->
            [expr |-> FmVar(FmPeek(toks, i).value), i |-> FmTake(toks, i),
             diags |-> <<>>]
      [] OTHER ->
            [expr |-> FmLiteral("Never", <<>>), i |-> FmTake(toks, i),
             diags |-> <<"HND-PARSE-0099">>]

\* parser.py 148-169 and 230-233: _parse_stmt -- show, or an expression
ParseStmt(toks, i) ==
    IF FmPeek(toks, i) = FmTok("KEYWORD", <<"show">>)
    THEN Bind(ParsePrimary(toks, FmTake(toks, i)),
              LAMBDA r : [stmt |-> FmStmt("ShowStmt", r.expr), i |-> r.i,
                          diags |-> r.diags])
    ELSE Bind(ParsePrimary(toks, i),
              LAMBDA r : [stmt |-> FmStmt("ExprStmt", r.expr), i |-> r.i,
                          diags |-> r.diags])

\* while self._at(TK_NEWLINE): self._take()
RECURSIVE SkipNewlines(_, _)
SkipNewlines(toks, i) ==
    IF FmPeek(toks, i).kind = "NEWLINE" THEN SkipNewlines(toks, FmTake(toks, i))
    ELSE i

\* parser.py 87-97: while not self._at(TK_EOF)
RECURSIVE ParseItems(_, _)
ParseItems(toks, i) ==
    IF FmPeek(toks, i).kind = "EOF" THEN [items |-> <<>>, diags |-> <<>>]
    ELSE Bind(ParseStmt(toks, i),
              LAMBDA s : Bind(ParseItems(toks, SkipNewlines(toks, s.i)),
                              LAMBDA rest : [items |-> <<s.stmt>> \o rest.items,
                                             diags |-> s.diags \o rest.diags]))

\* parser.py 82-98: Parser.parse
ParseProgram(toks) == ParseItems(toks, SkipNewlines(toks, 1))

\* format.py 80: s.replace("\\","\\\\").replace("\"","\\\"").replace("\n","\\n"),
\* the pieces each character of s becomes
EscapeText(s) ==
    IF s = <<>> THEN <<>>
    ELSE [k \in 1..Len(s) |->
            CASE s[k] = "bs" -> <<"bs", "bs">>
              [] s[k] = "q" -> <<"bs", "q">>
              [] s[k] = "lf" -> <<"bs", "n">>
              [] OTHER -> <<s[k]>>]

RECURSIVE Flatten(_)
Flatten(ss) == IF ss = <<>> THEN <<>> ELSE Head(ss) \o Flatten(Tail(ss))

\* format.py 75-99: _fmt_expr
fmt_expr(e) ==
    IF e.node = "Literal"
    THEN IF e.kind = "Text" THEN <<"q">> \o Flatten(EscapeText(e.value)) \o <<"q">>
         ELSE <<"null">>
    ELSE e.value

\* format.py 33-73: _fmt_stmt at level 0
fmt_stmt(st) ==
    IF st.node = "ShowStmt" THEN <<"show", "sp">> \o fmt_expr(st.expr)
    ELSE fmt_expr(st.expr)

\* "\n".join(out)
RECURSIVE JoinLf(_)
JoinLf(out) ==
    IF out = <<>> THEN <<>>
    ELSE IF Len(out) = 1 THEN out[1]
    ELSE out[1] \o <<"lf">> \o JoinLf(Tail(out))

\* str.rstrip()
RECURSIVE RStrip(_)
RStrip(s) ==
    IF s # <<>> /\ s[Len(s)] \in {"sp", "tab", "cr", "lf"}
    THEN RStrip(SubSeq(s, 1, Len(s) - 1)) ELSE s

\* format.py 7-16: format_hand
format_hand(items) ==
    RStrip(JoinLf([k \in 1..Len(items) |-> fmt_stmt(items[k])])) \o <<"lf">>

\* tests/test_parser_roundtrip.py 49-60: lex and parse the source
RoundTripParse ==
    /\ fm_pc = "start"
    /\ \E l \in {LexText(fm_src)} :
         \E r \in {ParseProgram(l.toks)} :
            /\ fm_ast' = r.items
            /\ fm_clean' = (l.diags = <<>> /\ r.diags = <<>>)
    /\ fm_pc' = "parsed"
    /\ UNCHANGED <<fm_src, fm_text, fm_ast2, fm_clean2, fm_text2>>
    /\ UNCHANGED nonFmVars

\* format the program
RoundTripFormat ==
    /\ fm_pc = "parsed"
    /\ fm_text' = format_hand(fm_ast)
    /\ fm_pc' = "formatted"
    /\ UNCHANGED <<fm_src, fm_ast, fm_clean, fm_ast2, fm_clean2, fm_text2>>
    /\ UNCHANGED nonFmVars

\* lex and parse the formatted text, and format what it parsed to
RoundTripReparse ==
    /\ fm_pc = "formatted"
    /\ \E l \in {LexText(fm_text)} :
         \E r \in {ParseProgram(l.toks)} :
            /\ fm_ast2' = r.items
            /\ fm_clean2' = (l.diags = <<>> /\ r.diags = <<>>)
            /\ fm_text2' = format_hand(r.items)
    /\ fm_pc' = "done"
    /\ UNCHANGED <<fm_src, fm_ast, fm_clean, fm_text>>
    /\ UNCHANGED nonFmVars

\* before any round trip
IdleFm ==
    /\ fm_pc = "idle"
    /\ fm_src = <<>>
    /\ fm_ast = <<>>
    /\ fm_clean = FALSE
    /\ fm_text = <<>>
    /\ fm_ast2 = <<>>
    /\ fm_clean2 = FALSE
    /\ fm_text2 = <<>>

(***************************************************************************)
(* Inputs of the round trip: show "<characters>"                           *)
(***************************************************************************)
MaxRaw == 3

RawChars == {"n", "t", "r", "bs", "q", "tab"}

FmSources ==
    {<<"show", "sp", "q">> \o raw \o <<"q", "lf">> : raw \in SeqsUpTo(RawChars, MaxRaw)}

IdleLast == IdleFm /\ IdleRr

IdleMiddle == IdleBuild /\ IdleTr /\ IdleLw /\ IdleEb /\ IdleWg

IdleLater == IdleMiddle /\ IdleLast

(***************************************************************************)
(* Specifications                                                          *)
(***************************************************************************)
InitCap ==
    /\ IdleLex
    /\ IdleTc
    /\ IdleParse
    /\ IdleRt
    /\ IdleOr
    /\ IdleLater
    /\ ir \in IrModules
    /\ supervision_level \in Levels
    /\ approvals \in ApprovalChoices
    /\ scope \in {"module", "function"}
    /\ enf_pc = "declared"
    /\ enf_k = 0
    /\ enf_fn = 0
    /\ checked = <<>>
    /\ raised = <<>>
    /\ cap_diags = <<>>
    /\ returned = NoIR

InitLex ==
    /\ IdleCap
    /\ IdleTc
    /\ IdleParse
    /\ IdleRt
    /\ IdleOr
    /\ IdleLater
    /\ src_lines \in Sources
    /\ lex_li = 1
    /\ indent_stack = <<0>>
    /\ tokens = <<>>
    /\ lex_diags = <<>>
    /\ lex_pc = "lines"

NextLex == LexLine \/ LexEofDedent \/ LexEof

SpecLex == InitLex /\ [][NextLex]_vars

NextCap ==
    \/ EnfCheckDeclared
    \/ EnfCheckMissing
    \/ EnfCheckCap
    \/ EnfPolicyDone
    \/ EnfCheckFunction
    \/ EnfFunctionsDone
    \/ EnfReturn

SpecCap == InitCap /\ [][NextCap]_vars

NextRaise == NextCap \/ EnfCallAtHigherLevel

SpecRaise == InitCap /\ [][NextRaise]_vars

InitTc ==
    /\ IdleCap
    /\ IdleLex
    /\ IdleParse
    /\ IdleRt
    /\ IdleOr
    /\ IdleLater
    /\ tc_items \in TcPrograms
    /\ tc_i = 1
    /\ tc_frames = <<EmptyFrame>>
    /\ tc_diags = <<>>
    /\ tc_current_return = NoType
    /\ tc_pc = "items"

NextTc == TcSection \/ TcStmt \/ TcReturn

SpecTc == InitTc /\ [][NextTc]_vars

InitParse ==
    /\ IdleCap
    /\ IdleLex
    /\ IdleTc
    /\ IdleRt
    /\ IdleOr
    /\ IdleLater
    /\ ptoks \in TokenStreams
    /\ p_i = 0
    /\ p_diags = <<>>
    /\ p_skipped = {}
    /\ p_items = <<>>
    /\ p_pc = "loop"

NextParse ==
    \/ ParseTopFunc
    \/ ParseTopVerify
    \/ ParseTopSection
    \/ ParseTopNewline
    \/ ParseTopStmt
    \/ ParseTopRecover
    \/ ParseReturn

SpecParse == InitParse /\ [][NextParse]_vars

\* parse() is one call that runs to its return: the loop is always scheduled
SpecParseLive == SpecParse /\ WF_vars(NextParse)

InitRun ==
    /\ IdleCap
    /\ IdleLex
    /\ IdleTc
    /\ IdleParse
    /\ IdleOr
    /\ IdleLater
    /\ rt_items \in RtPrograms
    /\ rt_inputs \in InputLists
    /\ rt_max_steps \in 1..MaxSteps
    /\ rt_max_loop_iters \in 1..MaxLoopIters
    /\ rt_top = <<>>
    /\ rt_functions = <<>>
    /\ rt_k = 0
    /\ rt_it = NewInterpreter
    /\ rt_pc = "new"

NextRun == RunLoad \/ RunStmt \/ RunExcept \/ RunFinalize

\* run() is one call: once started it keeps going
SpecRun == InitRun /\ [][NextRun]_vars /\ WF_vars(NextRun)

InitOracle ==
    /\ IdleLater
    /\ IdleCap
    /\ IdleLex
    /\ IdleTc
    /\ IdleParse
    /\ rt_items \in OrPrograms
    /\ rt_inputs \in InputLists
    /\ rt_max_steps = DefaultMaxSteps
    /\ rt_max_loop_iters = DefaultMaxLoopIters
    /\ rt_top = <<>>
    /\ rt_functions = <<>>
    /\ rt_k = 0
    /\ rt_it = NewInterpreter
    /\ rt_pc = "idle"
    /\ or_pc = "start"
    /\ or_ir = lower_program(<<>>)
    /\ or_ref_obs = NoObs
    /\ or_gen = NewGen
    /\ or_status = ""

NextOracle ==
    \/ OracleCompile
    \/ RunLoad
    \/ RunStmt
    \/ RunExcept
    \/ RunFinalize
    \/ OracleRef
    \/ OracleGen

SpecOracle == InitOracle /\ [][NextOracle]_vars

\* main(argv): --target, --level, --emit-ir and --emit-ast are the caller's
InitBuild ==
    /\ IdleCap
    /\ IdleLex
    /\ IdleTc
    /\ IdleParse
    /\ IdleRt
    /\ IdleOr
    /\ IdleLast
    /\ IdleTr
    /\ IdleLw
    /\ IdleEb
    /\ IdleWg
    /\ b_pc = "lex"
    /\ b_target \in Targets
    /\ b_level \in Levels
    /\ b_emit_ir \in BOOLEAN
    /\ b_emit_ast \in BOOLEAN
    /\ b_ir = NoIR
    /\ b_calls = <<>>
    /\ b_report = NewReport(<<>>)
    /\ b_files = {}
    /\ b_rc = -1

NextBuild ==
    \/ BuildLex
    \/ BuildParse
    \/ BuildTypecheck
    \/ BuildLower
    \/ BuildEnforce
    \/ BuildBackend
    \/ MainExcept
    \/ MainExit

SpecBuild == InitBuild /\ [][NextBuild]_vars

\* validate_translation(base_src, cand_src): the candidate is the base or
\* one line away from it
InitTranslate ==
    /\ IdleCap
    /\ IdleLex
    /\ IdleTc
    /\ IdleParse
    /\ IdleRt
    /\ IdleOr
    /\ IdleLast
    /\ IdleBuild
    /\ IdleLw
    /\ IdleEb
    /\ IdleWg
    /\ tr_pc = "start"
    /\ tr_base \in TrSources
    /\ tr_cand \in {c \in {tr_base} \cup OneEdit(tr_base) : c \in TrSources}
    /\ tr_toks = <<>>
    /\ tr_violations = <<>>

NextTranslate == ValidateLex \/ ValidateCompare

SpecTranslate == InitTranslate /\ [][NextTranslate]_vars

\* lower_program(program), called twice on the same tree
InitLower ==
    /\ IdleCap
    /\ IdleLex
    /\ IdleTc
    /\ IdleParse
    /\ IdleRt
    /\ IdleOr
    /\ IdleLast
    /\ IdleBuild
    /\ IdleTr
    /\ IdleEb
    /\ IdleWg
    /\ lw_pc = "start"
    /\ lw_program \in LwPrograms
    /\ lw_i = 0
    /\ lw_n = 0
    /\ lw_top = <<>>
    /\ lw_fns = <<>>
    /\ lw_caps = {}
    /\ lw_results = <<>>

NextLower == LowerStart \/ LowerItem \/ LowerReturn

SpecLower == InitLower /\ [][NextLower]_vars

\* _eval_bin(a, op, b) for every pair of operands and every operator
InitEvalBin ==
    /\ IdleCap
    /\ IdleLex
    /\ IdleTc
    /\ IdleParse
    /\ IdleRt
    /\ IdleOr
    /\ IdleLast
    /\ IdleBuild
    /\ IdleTr
    /\ IdleLw
    /\ IdleWg
    /\ eb_pc = "call"
    /\ eb_a \in EbValues
    /\ eb_op \in EbOps
    /\ eb_b \in EbValues
    /\ eb_out = [exc |-> NoExc, v |-> NoneV]

NextEvalBin == EvalBinCall

SpecEvalBin == InitEvalBin /\ [][NextEvalBin]_vars

\* gen_wat(ir)
InitWasm ==
    /\ IdleCap
    /\ IdleLex
    /\ IdleTc
    /\ IdleParse
    /\ IdleRt
    /\ IdleOr
    /\ IdleLast
    /\ IdleBuild
    /\ IdleTr
    /\ IdleLw
    /\ IdleEb
    /\ wg_pc = "start"
    /\ wg_ir \in WasmIrs
    /\ wg_k = 0
    /\ wg_lines = <<>>
    /\ wg_err = ""

NextWasm == GenWatRequire \/ GenWatFunction \/ GenWatReturn

SpecWasm == InitWasm /\ [][NextWasm]_vars

InitFormat ==
    /\ IdleCap
    /\ IdleLex
    /\ IdleTc
    /\ IdleParse
    /\ IdleRt
    /\ IdleOr
    /\ IdleMiddle
    /\ IdleRr
    /\ fm_pc = "start"
    /\ fm_src \in FmSources
    /\ fm_ast = <<>>
    /\ fm_clean = FALSE
    /\ fm_text = <<>>
    /\ fm_ast2 = <<>>
    /\ fm_clean2 = FALSE
    /\ fm_text2 = <<>>

NextFormat == RoundTripParse \/ RoundTripFormat \/ RoundTripReparse

SpecFormat == InitFormat /\ [][NextFormat]_vars

(***************************************************************************)
(* Claims about capability enforcement                                     *)
(***************************************************************************)
EnfTerminal == enf_pc \in {"done", "failed"}
Required == required_caps_for_module(ir)
PolicyCodes == {"HND-CAP-0101", "HND-CAP-0102"}

\* C1: in module scope enforce_capabilities returns without error exactly
\* when every declared capability is canonical, every required capability is
\* declared (compute counts as declared), no required capability is denied at
\* the level and every required capability needing approval is approved; the
\* capability it rejects on policy grounds is required, and is rejected with
\* HND-CAP-0101 when denied and HND-CAP-0102 when unapproved; only required
\* capabilities are ever handed to the policy check.
C1_ModuleVerdict ==
    (scope = "module" /\ EnfTerminal) =>
        /\ (enf_pc = "done") <=>
              /\ ir.capabilities \subseteq CANON_CAPS
              /\ Required \subseteq (ir.capabilities \cup {"compute"})
              /\ Required \cap PolicyDenied(supervision_level) = {}
              /\ (Required \cap PolicyAllowedWith(supervision_level)) \subseteq approvals
        /\ \A i \in 1..Len(raised) :
              /\ raised[i].code = "HND-CAP-0101" =>
                    raised[i].cap \in Required \cap PolicyDenied(supervision_level)
              /\ raised[i].code = "HND-CAP-0102" =>
                    raised[i].cap \in (Required \cap PolicyAllowedWith(supervision_level)) \ approvals
        /\ Range(checked) \subseteq Required

\* C1 witness: an accepted module that uses an approved capability and also
\* declares, without requiring it, a capability the level denies
C1_Witness ==
    /\ scope = "module"
    /\ enf_pc = "done"
    /\ Required \cap PolicyAllowedWith(supervision_level) # {}
    /\ (ir.capabilities \ Required) \cap PolicyDenied(supervision_level) # {}

\* position of a capability in ascending name order
CapPos(c) == CHOOSE i \in 1..Len(CapOrder) : CapOrder[i] = c

PolicyViolation(c) ==
    \/ c \in PolicyDenied(supervision_level)
    \/ c \in PolicyAllowedWith(supervision_level) /\ c \notin approvals

\* C3: enforcement raises at most one diagnostic, of severity fatal, and stops
\* there; an unknown declared capability (0001) wins over a missing
\* declaration (0201), which wins over any policy violation; the policy loop
\* visits the required capabilities in ascending name order and reports the
\* first violating one, as denied (0101) before unapproved (0102); on success
\* the diagnostics list is empty and the IR returned is the input.
C3_State ==
    /\ Len(raised) <= 1
    /\ (enf_pc = "failed") <=> (Len(raised) = 1)
    /\ \A i \in 1..Len(raised) : raised[i].severity = "fatal"
    /\ \A i, j \in 1..Len(checked) :
          (i < j /\ j <= Cardinality(Required)) => CapPos(checked[i]) < CapPos(checked[j])
    /\ EnfTerminal =>
          /\ (ir.capabilities \ CANON_CAPS # {}) =>
                (enf_pc = "failed" /\ raised[1].code = "HND-CAP-0001" /\ checked = <<>>)
          /\ (ir.capabilities \subseteq CANON_CAPS /\ ~(Required \subseteq DeclaredMod(ir))) =>
                (enf_pc = "failed" /\ raised[1].code = "HND-CAP-0201" /\ checked = <<>>)
          /\ ( /\ ir.capabilities \subseteq CANON_CAPS
               /\ Required \subseteq DeclaredMod(ir)
               /\ \E c \in Required : PolicyViolation(c) ) =>
                /\ enf_pc = "failed"
                /\ raised[1].origin_ref = ir.origin
                /\ PolicyViolation(raised[1].cap)
                /\ \A c \in Required : PolicyViolation(c) => CapPos(raised[1].cap) <= CapPos(c)
                /\ raised[1].code =
                      (IF raised[1].cap \in PolicyDenied(supervision_level)
                       THEN "HND-CAP-0101" ELSE "HND-CAP-0102")
                /\ checked[Len(checked)] = raised[1].cap
    /\ (enf_pc = "done") => (cap_diags = <<>> /\ raised = <<>> /\ returned = ir)

C3_FirstViolationOnly == []C3_State /\ [][ir' = ir /\ Len(raised') >= Len(raised)]_vars

\* C3 witness: a module that both lacks a declaration and requires a denied
\* capability, rejected for the missing declaration
C3_Witness ==
    /\ enf_pc = "failed"
    /\ raised[1].code = "HND-CAP-0201"
    /\ \E c \in Required : PolicyViolation(c)

\* C4: at every level the three policy sets are pairwise disjoint and cover
\* the eight canonical capabilities, so each capability has exactly one
\* status; level 1 allows only compute, level 4 denies nothing and asks
\* approval exactly for fs.write, net, env and crypto.
C4_PolicyPartition ==
    /\ supervision_level \in Levels
    /\ Cardinality(CANON_CAPS) = 8
    /\ \A L \in Levels :
          /\ PolicyAllowedWithout(L) \cap PolicyAllowedWith(L) = {}
          /\ PolicyAllowedWithout(L) \cap PolicyDenied(L) = {}
          /\ PolicyAllowedWith(L) \cap PolicyDenied(L) = {}
          /\ PolicyAllowedWithout(L) \cup PolicyAllowedWith(L) \cup PolicyDenied(L) = CANON_CAPS
    /\ PolicyAllowedWithout(1) = {"compute"} /\ PolicyAllowedWith(1) = {}
    /\ PolicyDenied(4) = {}
    /\ PolicyAllowedWith(4) = {"fs.write", "net", "env", "crypto"}

\* C4 witness: a level-4 run stopped on a capability that needs approval
C4_Witness ==
    /\ supervision_level = 4
    /\ enf_pc = "failed"
    /\ raised[1].code = "HND-CAP-0102"
    /\ raised[1].cap \in {"fs.write", "net", "env", "crypto"}

(***************************************************************************)
(* Claims about the lexer                                                  *)
(***************************************************************************)
CountKind(toks, kind) == Cardinality({i \in 1..Len(toks) : toks[i].kind = kind})

LastNewline(toks) ==
    CHOOSE i \in 1..Len(toks) :
        toks[i].kind = "NEWLINE" /\ \A j \in (i + 1)..Len(toks) : toks[j].kind # "NEWLINE"

HasIndentError(lines) ==
    \E i \in 1..Len(lines) : lines[i].text # "blank" /\ lines[i].indent % 4 # 0

\* C8: for every source, also one with indentation errors, the token stream
\* ends with exactly one EOF, as its last token; it has as many DEDENTs as
\* INDENTs, and no prefix has more DEDENTs than INDENTs; the DEDENTs still
\* owed at end of input come right before EOF (after the last NEWLINE there
\* is nothing but DEDENTs and the EOF).
C8_BalancedLayout ==
    /\ \A k \in 0..Len(tokens) :
          CountKind(SubSeq(tokens, 1, k), "DEDENT") <= CountKind(SubSeq(tokens, 1, k), "INDENT")
    /\ lex_pc \in {"lines", "eof", "done"} =>
          CountKind(tokens, "INDENT") - CountKind(tokens, "DEDENT") = Len(indent_stack) - 1
    /\ lex_pc \in {"lines", "eof"} => CountKind(tokens, "EOF") = 0
    /\ lex_pc = "done" =>
          /\ tokens[Len(tokens)].kind = "EOF"
          /\ CountKind(tokens, "EOF") = 1
          /\ CountKind(tokens, "DEDENT") = CountKind(tokens, "INDENT")
          /\ \A j \in (LastNewline(tokens) + 1)..(Len(tokens) - 1) : tokens[j].kind = "DEDENT"

\* C8 witness: a finished lex of a source with an indentation error that
\* still owed two DEDENTs at end of input
C8_Witness ==
    /\ lex_pc = "done"
    /\ HasIndentError(src_lines)
    /\ Len(tokens) >= 3
    /\ tokens[Len(tokens) - 1].kind = "DEDENT"
    /\ tokens[Len(tokens) - 2].kind = "DEDENT"

CodesAt(diags, li) == {diags[i].code : i \in {j \in 1..Len(diags) : diags[j].line = li}}

\* the innermost level still open that is not deeper than `indent`
OpenLevelAtOrBelow(stack, indent) ==
    CHOOSE e \in Range(stack) :
        e <= indent /\ \A f \in Range(stack) : f <= indent => f <= e

\* the lines only keep the level, go up by exactly 4 or return to an open level
RECURSIVE WellLaidFrom(_, _, _)
WellLaidFrom(lines, i, open) ==
    IF i > Len(lines) THEN TRUE
    ELSE IF lines[i].text = "blank" THEN WellLaidFrom(lines, i + 1, open)
    ELSE LET n   == lines[i].indent
             cur == CHOOSE e \in open : \A f \in open : f <= e
         IN  \/ n = cur /\ WellLaidFrom(lines, i + 1, open)
             \/ n = cur + 4 /\ WellLaidFrom(lines, i + 1, open \cup {n})
             \/ n < cur /\ n \in open /\ WellLaidFrom(lines, i + 1, {e \in open : e <= n})

IndentCodes == {"HND-INDENT-0001", "HND-INDENT-0002", "HND-INDENT-0003"}

\* what lexing line lex_li did, read off the step
C9_LineStep ==
    (lex_pc = "lines" /\ lex_li <= Len(src_lines) /\ lex_li' = lex_li + 1) =>
        LET line  == src_lines[lex_li]
            top   == Top(indent_stack)
            codes == CodesAt(lex_diags', lex_li)
        IN  IF line.text = "blank"
            THEN /\ tokens' = Append(tokens, Token("NEWLINE", lex_li))
                 /\ indent_stack' = indent_stack
                 /\ lex_diags' = lex_diags
            ELSE /\ ("HND-INDENT-0001" \in codes) <=> (line.indent % 4 # 0)
                 /\ ("HND-INDENT-0002" \in codes) <=>
                        (line.indent > top /\ line.indent - top # 4)
                 /\ ("HND-INDENT-0003" \in codes) <=>
                        (line.indent < top /\
                         line.indent # OpenLevelAtOrBelow(indent_stack, line.indent))
                 /\ SubSeq(lex_diags', 1, Len(lex_diags)) = lex_diags

\* C9: a non-blank line gets HND-INDENT-0001 exactly when its leading spaces
\* are not a multiple of 4, HND-INDENT-0002 exactly when it is deeper than the
\* top of the indent stack by anything but 4, HND-INDENT-0003 exactly when it
\* is shallower than the top and differs from the level left on top after
\* popping; a source that only keeps the level, goes up by 4 or returns to an
\* open level has no HND-INDENT diagnostic; a blank line emits only a NEWLINE
\* and leaves the indent stack alone.
C9_IndentDiagnostics ==
    /\ [][C9_LineStep]_vars
    /\ []((lex_pc = "done" /\ WellLaidFrom(src_lines, 1, {0})) =>
              \A i \in 1..Len(lex_diags) : lex_diags[i].code \notin IndentCodes)

\* C9 witness: a line that closed two levels at once and landed between levels
C9_Witness ==
    /\ lex_pc \in {"lines", "eof"}
    /\ lex_li > 1
    /\ "HND-INDENT-0003" \in CodesAt(lex_diags, lex_li - 1)
    /\ \E i, j \in 1..Len(tokens) :
          i # j /\ tokens[i] = Token("DEDENT", lex_li - 1) /\ tokens[j] = tokens[i]

(***************************************************************************)
(* Claims about the typechecker                                            *)
(***************************************************************************)
\* st, or a statement nested in it at any depth, assigns to v
RECURSIVE AssignsName(_, _)
AssignsName(st, v) ==
    \/ st.node = "AssignStmt" /\ st.name = v
    \/ \E i \in 1..Len(st.then_body) : AssignsName(st.then_body[i], v)
    \/ \E i \in 1..Len(st.else_body) : AssignsName(st.else_body[i], v)

\* the variable named by a verify expression of shape `v != null` or `v`
VerifyTarget(expr) ==
    IF IsNeqNull(expr) THEN expr.args[1].name
    ELSE IF expr.node = "Var" THEN expr.name
    ELSE ""

\* v is bound to Optional(T) in frames
BoundOptional(frames, v) ==
    EnvBound(frames, v) /\ is_optional(EnvGet(frames, v).typ)

\* a lookup of v yields T although v is bound to Optional(T)
LooksUpAsInner(frames, v) ==
    BoundOptional(frames, v) /\ current_type(frames, v) = EnvGet(frames, v).typ.args[1]

\* a verify that refines: recognised shape, on a variable bound to Optional(T)
RefiningVerify(st, frames) ==
    /\ st.node = "VerifyStmt"
    /\ VerifyTarget(st.value) # ""
    /\ BoundOptional(frames, VerifyTarget(st.value))

C5_AfterVerify ==
    (tc_pc = "items" /\ tc_i <= Len(tc_items) /\ tc_i' = tc_i + 1
        /\ RefiningVerify(tc_items[tc_i], tc_frames))
    => LooksUpAsInner(tc_frames', VerifyTarget(tc_items[tc_i].value))

C5_UntilAssigned ==
    (tc_pc = "items" /\ tc_i <= Len(tc_items) /\ tc_i' = tc_i + 1)
    => \A v \in TcNames :
          (LooksUpAsInner(tc_frames, v) /\ ~AssignsName(tc_items[tc_i], v))
          => LooksUpAsInner(tc_frames', v)

C5_OtherVerifyIsNoOp ==
    (tc_pc = "items" /\ tc_i <= Len(tc_items) /\ tc_i' = tc_i + 1
        /\ tc_items[tc_i].node = "VerifyStmt"
        /\ ~RefiningVerify(tc_items[tc_i], tc_frames))
    => tc_frames' = tc_frames

\* C5: after `verify v != null` or `verify v` with v bound to Optional(T),
\* every later lookup of v yields T until v is assigned again; any other
\* verify changes no binding and no refinement flag.
C5_RefinedUntilAssigned ==
    [][C5_AfterVerify /\ C5_UntilAssigned /\ C5_OtherVerifyIsNoOp]_vars

(***************************************************************************)
(* Claims about the parser                                                 *)
(***************************************************************************)
LayoutKinds == {"NEWLINE", "INDENT", "DEDENT", "EOF"}

\* the dropped tokens that carry program text
DroppedContent == {k \in p_skipped : ptoks[k].kind \notin LayoutKinds}

DiagnosedAt(k) == \E j \in 1..Len(p_diags) : p_diags[j].pos = k

\* C10: every token the parser skips because it does not fit the grammar
\* has a diagnostic at its position, so a parse that dropped a token ends
\* with a non-empty diagnostics list (stated here for the tokens that carry
\* program text; layout tokens are left out).
C10_DroppedTokensDiagnosed ==
    p_pc = "done" =>
        /\ \A k \in DroppedContent : DiagnosedAt(k)
        /\ (DroppedContent # {} => p_diags # <<>>)

(***************************************************************************)
(* Claims about the interpreter                                            *)
(***************************************************************************)
IoEvents(op) ==
    SelectSeq(rt_it.trace, LAMBDA ev : ev.kind = "io" /\ ev.detail.tag = op)

AskEvents == IoEvents("ask")
ShowEvents == IoEvents("show")

IsPrefix(s, t) == Len(s) <= Len(t) /\ SubSeq(t, 1, Len(s)) = s

\* the step limit struck: the last _emit raised instead of recording
StepLimitStruck == rt_it.step > rt_max_steps

\* the k-th ask event carries the k-th input
C6_AsksInOrder ==
    /\ Len(AskEvents) <= Len(rt_inputs)
    /\ \A j \in 1..Len(AskEvents) : AskEvents[j].detail.value = rt_inputs[j]

\* one element consumed per ask (an ask cut by the step limit has consumed
\* its element and left no event)
C6_OnePerAsk ==
    \/ rt_it.input_i = Len(AskEvents)
    \/ rt_it.input_i = Len(AskEvents) + 1 /\ StepLimitStruck

C6_ExhaustedConsumesNothing ==
    (rt_it.exc = "HND-RT-0101" /\ ~StepLimitStruck) =>
        /\ rt_it.input_i = Len(rt_inputs)
        /\ Len(AskEvents) = Len(rt_inputs)

\* one entry of outputs per show, in the order of the show events
C6_OnePerShow ==
    /\ \A j \in 1..Len(ShowEvents) : rt_it.outputs[j] = ShowEvents[j].detail.value
    /\ \/ Len(rt_it.outputs) = Len(ShowEvents)
       \/ Len(rt_it.outputs) = Len(ShowEvents) + 1 /\ StepLimitStruck

\* `x = ask("p")` that completes stores the next input and moves the cursor
\* by one
C6_AskReturnsNext ==
    (rt_pc = "run" /\ rt_pc' = "run" /\ rt_k' = rt_k + 1
        /\ rt_top[rt_k] = RtAssignAsk) =>
        /\ rt_it.input_i < Len(rt_inputs)
        /\ rt_it'.input_i = rt_it.input_i + 1
        /\ rt_it'.frames[1]["x"] = StrV(rt_inputs[rt_it.input_i + 1])

\* C6: the k-th evaluated ask returns the k-th input and consumes exactly
\* that element; an ask with no input left fails with HND-RT-0101 and
\* consumes nothing; each show appends one stringified value, so outputs
\* lists the shown values in execution order and only ever grows at the end.
C6_InputsAndOutputsInOrder ==
    /\ [](C6_AsksInOrder /\ C6_OnePerAsk /\ C6_ExhaustedConsumesNothing
          /\ C6_OnePerShow)
    /\ [][C6_AskReturnsNext /\ IsPrefix(rt_it.outputs, rt_it'.outputs)]_vars

\* `while true: show ask("p")` with the one input "7": asked once, got and
\* showed "7", then found the inputs exhausted
C6_Witness ==
    /\ rt_pc = "failed"
    /\ rt_it.exc = "HND-RT-0101"
    /\ rt_inputs = <<NatStr(7)>>
    /\ rt_it.input_i = 1
    /\ rt_it.outputs = <<NatStr(7)>>

C7_TraceBounded ==
    /\ Len(rt_it.trace) <= rt_max_steps
    /\ \A j \in 1..Len(rt_it.trace) : rt_it.trace[j].step = j

\* HND-RT-9999 exactly when one more event than max_steps was to be emitted
C7_StepLimit ==
    /\ StepLimitStruck =>
           /\ rt_it.exc = "HND-RT-9999"
           /\ Len(rt_it.trace) = rt_max_steps
           /\ rt_pc \in {"except", "failed"}
    /\ rt_it.exc = "HND-RT-9999" => StepLimitStruck

LoopChecks == SelectSeq(rt_it.trace, LAMBDA ev : ev.kind = "loop_check")

\* no while statement starts more than max_loop_iters iterations, and
\* HND-RT-9998 comes at the check after the max_loop_iters-th iteration
C7_LoopLimit ==
    /\ \A j \in 1..Len(LoopChecks) : LoopChecks[j].detail.iter <= rt_max_loop_iters
    /\ (rt_it.exc = "HND-RT-9998" /\ ~StepLimitStruck) =>
           /\ LoopChecks # <<>>
           /\ LoopChecks[Len(LoopChecks)].detail.iter = rt_max_loop_iters
           /\ LoopChecks[Len(LoopChecks)].detail.value = Repr(BoolV(TRUE))
           /\ rt_pc \in {"except", "failed"}

RunEnded == rt_pc \in {"done", "failed", "crashed"}

\* a run over a program with `while true: x = 1` never returns normally
C7_ForeverLoopFails ==
    (rt_pc = "done") => \A k \in 1..Len(rt_top) : rt_top[k] # RtLoopForever

\* C7: every run ends; the trace never holds more than max_steps events and
\* the run fails with HND-RT-9999 as soon as one more would be emitted; a
\* while statement starts at most max_loop_iters iterations and fails with
\* HND-RT-9998 at the next check; a non-terminating loop ends in an error.
C7_RunsAreBounded ==
    /\ [](C7_TraceBounded /\ C7_StepLimit /\ C7_LoopLimit /\ C7_ForeverLoopFails)
    /\ <>RunEnded

\* `while true: x = 1` stopped by the loop limit with steps to spare
C7_Witness ==
    /\ rt_pc = "failed"
    /\ rt_it.exc = "HND-RT-9998"
    /\ Len(rt_it.trace) < rt_max_steps
    /\ rt_top = <<RtLoopForever>>

\* the last event of the trace is the error event of the error the run
\* failed with
C18_LastIsError ==
    /\ rt_it.trace # <<>>
    /\ rt_it.trace[Len(rt_it.trace)].kind = "error"
    /\ rt_it.trace[Len(rt_it.trace)].detail.tag = rt_it.exc

\* C18: whenever Interpreter.run fails with a runtime error, of any HND-RT
\* code, the step limit and the loop limit included, the last event of the
\* trace is an error event with that error's code, and the events recorded
\* before the failure are still there in order.
C18_ErrorEventRecorded ==
    /\ [](rt_pc = "failed" => C18_LastIsError)
    /\ [][rt_pc = "except" => IsPrefix(rt_it.trace, rt_it'.trace)]_vars

(***************************************************************************)
(* Claims about the host-language backend and the oracle                   *)
(***************************************************************************)
\* both runs of the oracle returned normally
BothRan ==
    /\ or_pc = "done"
    /\ or_status \in {"pass", "fail"}
    /\ rt_pc = "done"
    /\ or_gen.exc = NoExc

SameOmega == or_gen.outputs = rt_it.outputs
SameSigma == or_gen.frames[1] = store_snapshot(rt_it)

\* C2: for a program the pipeline accepts, __hand_main of the generated
\* program yields the outputs of the reference interpreter and ends with the
\* same top-level store, and the oracle reports `pass` for the python target
\* exactly when both agree.
C2_GeneratedMatchesReference ==
    BothRan =>
        /\ SameOmega
        /\ SameSigma
        /\ (or_status = "pass" <=> (SameOmega /\ SameSigma))

(***************************************************************************)
(* C11: the parser always makes progress and returns                       *)
(***************************************************************************)
\* a parser placed at 0-based position k of the stream, nothing reported yet
PAt(k) == PState(k, <<>>, {})

Positions == 0..(Len(ptoks) - 1)

\* one iteration of the loop of _parse_block (parser.py 111-119) from k
BlockIteration(k) ==
    IF Is(PAt(k), "NEWLINE") THEN Adv(PAt(k))
    ELSE Accept((IF IsV(PAt(k), "EMOJI", VERIFY_EMOJI) THEN parse_verify(PAt(k))
                 ELSE parse_stmt(PAt(k))).p, "NEWLINE")

C11_BlockLoopAdvances ==
    p_pc # "idle" =>
        \A k \in Positions :
            At(PAt(k)).kind \notin {"DEDENT", "EOF"} => BlockIteration(k).i > k

C11_PrimaryAdvances ==
    p_pc # "idle" =>
        \A k \in Positions :
            /\ parse_primary(PAt(k)).p.i > k
            /\ parse_expr(PAt(k)).p.i > k

C11_TopLoopAdvances == p_pc = "loop" /\ p_pc' = "loop" => p_i' > p_i

C11_NeverBackwards ==
    /\ p_i' >= p_i
    /\ IsPrefix(p_diags, p_diags')
    /\ IsPrefix(p_items, p_items')

\* C11: for every token stream that ends with EOF the parse returns a program
\* and its diagnostics: each round of the top-level loop, of the block loop and
\* of the expression fallback moves the cursor forward, and nothing moves it
\* back.
C11_ParseTerminates ==
    /\ [](C11_BlockLoopAdvances /\ C11_PrimaryAdvances)
    /\ [][C11_TopLoopAdvances /\ C11_NeverBackwards]_vars
    /\ <>(p_pc = "done")

\* a malformed stream parsed to the end: top-level recovery and the
\* expression fallback have both run
C11_Witness ==
    /\ p_pc = "done"
    /\ p_skipped # {}
    /\ \E k \in 1..Len(p_diags) : p_diags[k].code = "HND-EXPR-0001"
    /\ \E k \in 1..Len(p_diags) : p_diags[k].code = "HND-PARSE-0001"

(***************************************************************************)
(* Claims about the compiler driver                                        *)
(***************************************************************************)
StageOrder == <<"lex", "parse", "typecheck", "lower", "enforce", "backend">>

ArtifactFiles == {target_outfile(t) : t \in Targets}

Clean(call) == call.diags = <<>> /\ call.exc = ""

C12_InOrder ==
    /\ Len(b_calls) <= Len(StageOrder)
    /\ \A k \in 1..Len(b_calls) : b_calls[k].stage = StageOrder[k]

\* a stage is invoked only after every stage before it came back clean
C12_Gated ==
    \A k \in 1..Len(b_calls) : \A j \in 1..(k - 1) : Clean(b_calls[j])

C12_NoArtifactAfterCapFailure ==
    (\E k \in 1..Len(b_calls) : b_calls[k].stage = "enforce" /\ b_calls[k].exc # "")
        => /\ b_files \cap ArtifactFiles = {}
           /\ b_report.outputs = <<>>
           /\ \A k \in 1..Len(b_calls) : b_calls[k].stage # "backend"

C12_DiagnosticsGrow == IsPrefix(b_report.diagnostics, b_report'.diagnostics)

\* C12: a build runs lex, parse, typecheck, lower, enforce, backend in that
\* order; a stage is not invoked once an earlier one reported a diagnostic or
\* failed, a failed capability enforcement leaves no backend call and no
\* artifact file, and the report's diagnostics list only grows.
C12_StagesInOrder ==
    /\ [](C12_InOrder /\ C12_Gated /\ C12_NoArtifactAfterCapFailure)
    /\ [][C12_DiagnosticsGrow]_vars

\* a build with --emit-ir stopped by the capability check
C12_Witness ==
    /\ b_pc = "exited"
    /\ Len(b_calls) = 5
    /\ b_calls[5].exc = "CapabilityError"
    /\ "ir.json" \in b_files
    /\ b_report.diagnostics = <<"HND-CAP-0101">>

LastCall == b_calls[Len(b_calls)]

AllSucceeded ==
    /\ Len(b_calls) = Len(StageOrder)
    /\ \A k \in 1..Len(b_calls) : Clean(b_calls[k])

StoppedOnDiagnostics ==
    \/ LastCall.stage \in {"lex", "parse", "typecheck"} /\ LastCall.diags # <<>>
    \/ LastCall.stage = "enforce" /\ LastCall.exc # ""

BackendRefused == LastCall.stage = "backend" /\ LastCall.exc # ""

\* C13: the exit code is 0 exactly when every stage succeeded (status ok, the
\* artifact listed in outputs), 2 exactly when the build stopped on
\* diagnostics or a capability failure, 3 exactly when the backend of the
\* target refused the IR; otherwise the status is error and outputs is empty.
C13_ExitCodeClassifies ==
    b_pc = "exited" =>
        /\ b_rc = 0 <=> (/\ AllSucceeded
                         /\ b_report.status = "ok"
                         /\ b_report.outputs = <<target_outfile(b_target)>>)
        /\ b_rc = 2 <=> StoppedOnDiagnostics
        /\ b_rc = 3 <=> BackendRefused
        /\ b_rc # 0 => b_report.status = "error" /\ b_report.outputs = <<>>

(***************************************************************************)
(* Claims about the translation validator                                  *)
(***************************************************************************)
\* the body of the description block: the lines after the canonical header
\* that are blank or indented by at least 4 spaces, up to the first line
\* back at column 0
BlockBody(src) ==
    LET hs == {i \in 1..Len(src) : src[i] = TrLine(0, "header")}
    IN  IF hs = {} THEN {}
        ELSE LET h == CHOOSE i \in hs : \A k \in hs : i <= k
             IN  {j \in (h + 1)..Len(src) :
                    \A k \in (h + 1)..j : src[k].text = "blank" \/ src[k].indent >= 4}

\* a line with the value of a marked string literal left out
Unmarked(ln) ==
    IF ln.text \in {"tshow_a", "tshow_b"} THEN TrLine(ln.indent, "tshow") ELSE ln

\* what a source says outside the two windows
RECURSIVE OutsideFrom(_, _)
OutsideFrom(src, i) ==
    IF i > Len(src) THEN <<>>
    ELSE (IF i \in BlockBody(src) THEN <<>> ELSE <<Unmarked(src[i])>>)
         \o OutsideFrom(src, i + 1)

Outside(src) == OutsideFrom(src, 1)

\* C14: validate_translation returns no violation when the candidate differs
\* from the base only inside the body of the description block and in
\* string literals that follow the marker, and a violation when anything
\* outside those two windows differs, is added or is removed.
C14_OnlyWindowsMayChange ==
    tr_pc = "done" =>
        (tr_violations = <<>> <=> Outside(tr_base) = Outside(tr_cand))

(***************************************************************************)
(* Claims about the lowering                                               *)
(***************************************************************************)
\* the identifiers of a statement and of the statements nested in it, the
\* statement's own first, then its branches in the order they are written
RECURSIVE IdsOf(_)
IdsOf(st) ==
    LET below == st.then \o st.else \o st.body
        RECURSIVE Cat(_)
        Cat(k) == IF k > Len(below) THEN <<>> ELSE IdsOf(below[k]) \o Cat(k + 1)
    IN  <<st.id>> \o Cat(1)

\* the identifiers of a function: its own, its body's, its parameters'
FnIds(f) ==
    LET RECURSIVE Cat(_)
        Cat(k) == IF k > Len(f.body) THEN <<>> ELSE IdsOf(f.body[k]) \o Cat(k + 1)
    IN  <<f.id>> \o Cat(1) \o [k \in 1..Len(f.params) |-> f.params[k].id]

\* every identifier given out under fns and top
RECURSIVE AllIds(_, _)
AllIds(fns, top) ==
    IF fns # <<>> THEN FnIds(Head(fns)) \o AllIds(Tail(fns), top)
    ELSE IF top # <<>> THEN IdsOf(Head(top)) \o AllIds(fns, Tail(top))
    ELSE <<>>

Consecutive(ids) == \A k \in 1..Len(ids) : ids[k] = ids[1] + (k - 1)

\* fns and top hold the identifiers 1..k, each once, and every statement
\* comes before what is nested in it and before what follows it
Numbered(fns, top, k) ==
    /\ Len(AllIds(fns, top)) = k
    /\ Range(AllIds(fns, top)) = 1..k
    /\ \A i \in 1..Len(top) : Consecutive(IdsOf(top[i]))
    /\ \A i \in 1..Len(fns) : Consecutive(FnIds(fns[i]))
    /\ \A i \in 1..Len(top), j \in 1..Len(top) : i < j => top[i].id < top[j].id
    /\ \A i \in 1..Len(fns), j \in 1..Len(fns) : i < j => fns[i].id < fns[j].id

\* C15: within one lower_program call every statement, function and
\* parameter gets a distinct identifier N1..Nk without gaps, a statement's
\* smaller than those of the statements nested in it and following it; the
\* counter belongs to the call, so lowering the same tree again starts at N1
\* and returns an identical IR.
C15_IdentifiersPerCall ==
    /\ lw_pc = "items" => Numbered(lw_fns, lw_top, lw_n)
    /\ \A r \in 1..Len(lw_results) :
         Numbered(lw_results[r].functions, lw_results[r].toplevel,
                  Len(AllIds(lw_results[r].functions, lw_results[r].toplevel)))
    /\ Len(lw_results) = 2 => lw_results[1] = lw_results[2]

C15_Witness ==
    /\ Len(lw_results) = 2
    /\ Len(lw_program) >= 2
    /\ lw_program[1] = LwIf
    /\ \E k \in 1..Len(lw_results[2].functions) :
         Len(lw_results[2].functions[k].params) = 2
    /\ lw_results[2].toplevel[1].id = 1
    /\ lw_results[2].toplevel[1].else[1].id = 4

\* a statement and every statement nested in it
RECURSIVE Descend(_)
Descend(st) ==
    LET below == st.then \o st.else \o st.body
    IN  {st} \cup UNION {Descend(below[k]) : k \in 1..Len(below)}

DescendAll(sts) == UNION {Descend(sts[k]) : k \in 1..Len(sts)}

\* every statement of an IR, at any depth
StmtsOf(irm) ==
    DescendAll(irm.toplevel)
    \cup UNION {DescendAll(irm.functions[k].body) : k \in 1..Len(irm.functions)}

\* C16: the capabilities of every lowered statement are the image of its
\* effects under the effect-to-capability map (show carries exactly
\* io.write, a statement without effects carries none), and every
\* capability name in the IR is one of the eight canonical names.
C16_CapsFromEffects ==
    \A r \in 1..Len(lw_results) :
      /\ \A st \in StmtsOf(lw_results[r]) :
           /\ Range(st.capabilities) = {EffectToCap(ef) : ef \in Range(st.effects)}
           /\ Range(st.capabilities) \subseteq CANON_CAPS
      /\ Range(lw_results[r].capabilities) \subseteq CANON_CAPS
      /\ \A k \in 1..Len(lw_results[r].functions) :
           Range(lw_results[r].functions[k].capabilities) \subseteq CANON_CAPS

\* xs lists the members of S once each, in sorted order
SortedListOf(xs, S) ==
    /\ Range(xs) = S
    /\ \A i \in 1..Len(xs), j \in 1..Len(xs) :
         i < j => \E a \in 1..Len(LowNameOrder), b \in 1..Len(LowNameOrder) :
                    a < b /\ LowNameOrder[a] = xs[i] /\ LowNameOrder[b] = xs[j]

\* C17: a function's effects and capabilities are the sorted, duplicate-free
\* union over the statements of its body at any depth, and
\* module.capabilities is the sorted, duplicate-free union of the
\* capabilities of every function and of every top-level statement,
\* nested ones included.
C17_UnionsAtAnyDepth ==
    \A r \in 1..Len(lw_results) :
      LET irm == lw_results[r]
      IN  /\ \A k \in 1..Len(irm.functions) :
                /\ SortedListOf(irm.functions[k].effects,
                                UNION {Range(st.effects) :
                                         st \in DescendAll(irm.functions[k].body)})
                /\ SortedListOf(irm.functions[k].capabilities,
                                UNION {Range(st.capabilities) :
                                         st \in DescendAll(irm.functions[k].body)})
          /\ SortedListOf(irm.capabilities,
                          UNION {Range(irm.functions[k].capabilities) :
                                   k \in 1..Len(irm.functions)}
                          \cup UNION {Range(st.capabilities) :
                                        st \in DescendAll(irm.toplevel)})

(***************************************************************************)
(* Claims about equality in the interpreter                                *)
(***************************************************************************)
\* C19: == on two values of different kinds among Int, Bool, Text and Null
\* is false and != is true, without a runtime error; equality never raises,
\* only ordering and arithmetic do.
C19_MixedEqualityIsFalse ==
    (eb_pc = "done" /\ eb_op \in {"==", "!="}) =>
        /\ eb_out.exc = NoExc
        /\ eb_a.t # eb_b.t => eb_out.v = BoolV(eb_op = "!=")

(***************************************************************************)
(* Claims about the WebAssembly backend                                    *)
(***************************************************************************)
\* an expression and every expression inside it
RECURSIVE SubExprs(_)
SubExprs(e) == {e} \cup UNION {SubExprs(e.args[k]) : k \in 1..Len(e.args)}

I32Kinds == {"", "Int", "Bool"}

WasmCodes ==
    {"WASM-0100", "WASM-0200", "WASM-0201", "WASM-0300", "WASM-0301", "WASM-0400",
     "WASM-0401", "WASM-0500", "WASM-0600", "WASM-0999"}

\* the pure subset: no top-level statement; in every function body, at any
\* depth, no effect beyond compute, no show or verify, no call of ask or of
\* an unknown name; every parameter, result, declared and literal type Int
\* or Bool
InPureSubset(m) ==
    /\ m.toplevel = <<>>
    /\ \A i \in 1..Len(m.functions) :
         /\ \A k \in 1..Len(m.functions[i].params) :
              m.functions[i].params[k].type \in I32Kinds
         /\ m.functions[i].ret_type \in I32Kinds
         /\ \A st \in DescendAll(m.functions[i].body) :
              /\ Range(st.effects) \subseteq {"contract.verify", "control.return"}
              /\ st.kind \notin {"show", "verify"}
              /\ st.declared_type \in I32Kinds
              /\ \A e \in SubExprs(st.value) :
                   /\ e.kind = "lit" => e.type \in I32Kinds
                   /\ e.kind = "call" =>
                        e.name \in {m.functions[k].name : k \in 1..Len(m.functions)}

\* C20: gen_wat returns WAT text only for an IR of the pure subset; for any
\* other IR it raises a WasmGenError with a WASM-prefixed code.
C20_OnlyPureSubsetCompiles ==
    /\ wg_pc = "returned" => InPureSubset(wg_ir)
    /\ ~InPureSubset(wg_ir) /\ wg_pc = "raised" => wg_err \in WasmCodes


(***************************************************************************)
(* Claims about the formatter                                              *)
(***************************************************************************)
\* C21: for every source that lexes and parses without a diagnostic, the
\* formatted text lexes and parses without a diagnostic to an equal program,
\* and formatting that program again gives the same text
C21_FormatRoundTrips ==
    (fm_pc = "done" /\ fm_clean) =>
        /\ fm_clean2
        /\ fm_ast2 = fm_ast
        /\ fm_text2 = fm_text


(***************************************************************************)
(* Claims about the supervision levels                                     *)
(***************************************************************************)
\* a capability a module may use at level L, with or without approval
Usable(L) == PolicyAllowedWithout(L) \cup PolicyAllowedWith(L)

\* C22: an IR accepted at a level is accepted at every higher level with the
\* same approvals and scope, and no capability usable at a level is denied at
\* a higher one
C22_RaisingLevelKeepsAcceptance ==
    /\ (rr_level > 0 /\ EnfTerminal) => enf_pc = "done"
    /\ rr_level > 0 => rr_level < supervision_level
    /\ \A L \in Levels : \A L2 \in Levels :
          L < L2 => Usable(L) \cap PolicyDenied(L2) = {}

\* C22 witness: an IR accepted with an approval it needed at the lower level,
\* accepted again at a higher level
C22_Witness ==
    /\ rr_level > 0
    /\ enf_pc = "done"
    /\ Required \cap PolicyAllowedWith(rr_level) # {}
    /\ Required \cap PolicyAllowedWith(supervision_level) # {}


(***************************************************************************)
(* Claims about function scope                                             *)
(***************************************************************************)
\* the module-level checks pass
ModulePasses ==
    /\ ir.capabilities \subseteq CANON_CAPS
    /\ Required \subseteq (ir.capabilities \cup {"compute"})
    /\ \A c \in Required : ~PolicyViolation(c)

FnUnknown(fn) == (fn.capabilities \cup {"compute"}) \ CANON_CAPS
FnMissing(fn) == required_caps_for_function(fn) \ (fn.capabilities \cup {"compute"})
FnAtFault(fn) == FnUnknown(fn) # {} \/ FnMissing(fn) # {}

\* the first function, in module order, whose own declaration does not stand
FirstAtFault ==
    ir.functions[CHOOSE i \in 1..Len(ir.functions) :
                    /\ FnAtFault(ir.functions[i])
                    /\ \A j \in 1..(i - 1) : ~FnAtFault(ir.functions[j])]

\* C23: in function scope, once the module-level checks have passed, the
\* functions are checked in module order, each against its own declaration:
\* the first function at fault is the one rejected, with that function's
\* origin, HND-CAP-0001 when it declares a non-canonical capability and
\* HND-CAP-0202 when a capability it requires is not among those it declares
\* (compute counts as declared); in module scope the functions' own
\* declarations do not change the verdict
C23_FunctionScope ==
    /\ (enf_pc = "functions") =>
          \A j \in 1..(enf_fn - 1) :
              j <= Len(ir.functions) => ~FnAtFault(ir.functions[j])
    /\ (EnfTerminal /\ ModulePasses) =>
          IF scope = "function" /\ \E i \in 1..Len(ir.functions) : FnAtFault(ir.functions[i])
          THEN /\ enf_pc = "failed"
               /\ raised[1].origin_ref = FirstAtFault.origin
               /\ IF FnUnknown(FirstAtFault) # {}
                  THEN /\ raised[1].code = "HND-CAP-0001"
                       /\ raised[1].cap \in FnUnknown(FirstAtFault)
                  ELSE /\ raised[1].code = "HND-CAP-0202"
                       /\ raised[1].cap \in FnMissing(FirstAtFault)
          ELSE enf_pc = "done"

\* C23 witness: a module of two functions at fault, rejected for the first
\* one, which declares a non-canonical capability and also lacks one
C23_Witness ==
    /\ scope = "function"
    /\ enf_pc = "failed"
    /\ Len(ir.functions) = 2
    /\ raised[1].origin_ref = ir.functions[1].origin
    /\ raised[1].code = "HND-CAP-0001"
    /\ FnMissing(ir.functions[1]) # {}


(***************************************************************************)
(* Claims about branches, loops and function bodies in the typechecker     *)
(***************************************************************************)
\* the step of the item loop over a statement of the given class
TcStepOn(node) ==
    /\ tc_pc = "items"
    /\ tc_i <= Len(tc_items)
    /\ tc_i' = tc_i + 1
    /\ tc_items[tc_i].node = node

\* what checking a block from the snapshot `frames` gives
BlockFrom(block, frames) ==
    check_block_with_env(block, frames, TcState(frames, <<>>, tc_current_return))

\* the environments at the end of the two branches of the if the loop is at
ThenEnv == BlockFrom(tc_items[tc_i].then_body, tc_frames).frames
ElseEnv ==
    IF tc_items[tc_i].no_else THEN tc_frames
    ELSE BlockFrom(tc_items[tc_i].else_body, tc_frames).frames

\* C24: after an if the current frame binds exactly the names bound at the
\* end of both branches, each with the join of its two branch types; a name
\* bound in only one branch is not bound after the if
C24_Step ==
    TcStepOn("IfStmt") =>
        \A v \in TcNames :
            /\ (v \in DOMAIN tc_frames'[Len(tc_frames')])
                  <=> (EnvBound(ThenEnv, v) /\ EnvBound(ElseEnv, v))
            /\ (EnvBound(ThenEnv, v) /\ EnvBound(ElseEnv, v)) =>
                  EnvGet(tc_frames', v).typ
                      = join(EnvGet(ThenEnv, v).typ, EnvGet(ElseEnv, v).typ)

C24_BoundInBothBranches == [][C24_Step]_vars

Refined(frames, v) == EnvBound(frames, v) /\ EnvGet(frames, v).proven_non_null

\* the diagnostics of the condition of an if
CondDiags(st, frames) ==
    type_of_expr(st.value, frames).errs
    \o (IF type_of_expr(st.value, frames).typ # BOOL
            /\ type_of_expr(st.value, frames).typ.k # "Any"
        THEN <<"HND-TC-1401">> ELSE <<>>)

\* C25: both branches of an if are checked from the environment before the
\* if, so what the then-branch binds or refines is not seen by the
\* else-branch, and a refinement made in only one branch is not in effect
\* after the if
C25_Step ==
    TcStepOn("IfStmt") =>
        /\ tc_diags' = tc_diags
                \o CondDiags(tc_items[tc_i], tc_frames)
                \o BlockFrom(tc_items[tc_i].then_body, tc_frames).diags
                \o (IF tc_items[tc_i].no_else THEN <<>>
                    ELSE BlockFrom(tc_items[tc_i].else_body, tc_frames).diags)
        /\ \A v \in TcNames :
              (Refined(ThenEnv, v) # Refined(ElseEnv, v)) => ~Refined(tc_frames', v)

C25_BranchesFromSameSnapshot == [][C25_Step]_vars

\* C25 witness: x is Optional; the then-branch verifies it, the else-branch
\* uses it as a number and is told it is not one, and after the if x is not
\* refined
C25_Witness ==
    /\ tc_i = 3
    /\ tc_items[1] = TcDeclOptX
    /\ tc_items[2] = TcIfRefine
    /\ tc_diags = <<"HND-TC-0202">>
    /\ ~Refined(tc_frames, "x")

\* C26: after a while statement every frame has the names, types and
\* refinement flags it had before the statement
C26_Step == TcStepOn("WhileStmt") => tc_frames' = tc_frames

C26_WhileRestoresEnv == [][C26_Step]_vars

\* C26 witness: a loop whose body refines x, gives it another type and binds
\* y has been checked with x bound to Optional(Int), and x is as before
C26_Witness ==
    /\ tc_i = 3
    /\ tc_items[1] = TcDeclOptX
    /\ tc_items[2] = TcWhile
    /\ tc_frames = <<[n \in {"x"} |-> Binding(OptionalT(INT), FALSE)]>>
    /\ tc_diags = <<>>

\* C30: checking a function definition leaves every variable of the
\* enclosing frames with the type and the refinement flag it had before
C30_Step == TcStepOn("FuncDef") => tc_frames' = tc_frames

C30_VerifyConfinedToBody == [][C30_Step]_vars


(***************************************************************************)
(* Claims about the scope stack and the outcomes of a run                  *)
(***************************************************************************)
\* the statements of a list and those nested in them, at any depth
RECURSIVE RtNested(_)
RtNested(stmts) ==
    IF stmts = <<>> THEN {}
    ELSE {Head(stmts)} \cup RtNested(Head(stmts).then_body)
         \cup RtNested(Head(stmts).else_body) \cup RtNested(Tail(stmts))

\* the bodies of the functions of the program
RECURSIVE RtBodies(_)
RtBodies(fns) ==
    IF fns = <<>> THEN {} ELSE RtNested(Head(fns).then_body) \cup RtBodies(Tail(fns))

\* C27: the scope stack always holds the global frame, and every frame
\* pushed for an if body, a while iteration or a call is popped when the body
\* ends, normally, by a return signal or by a runtime error: between the
\* statements of a run, and when it has ended, the stack holds one frame, and
\* any statement of the program run from there leaves the depth as it was
C27_StackBalanced ==
    /\ Len(rt_it.frames) = 1
    /\ rt_pc = "run" =>
          \A st \in RtNested(rt_top) \cup RtBodies(rt_functions) :
              Len(exec_stmt(rt_it, st).frames) = Len(rt_it.frames)

\* C27 witness: a run failed on an error raised inside the body of a loop
C27_Witness ==
    /\ rt_pc = "failed"
    /\ rt_top[rt_k].node = "WhileStmt"
    /\ rt_it.exc = "HND-RT-0101"
    /\ Len(rt_it.frames) = 1

\* C28: run either returns its result or raises a HandRuntimeError; the
\* return signal never leaves run
C28_ReturnSignalNeverEscapes ==
    /\ rt_it.exc # ReturnSignal
    /\ RunEnded => (rt_pc = "done" \/ (rt_pc = "failed" /\ IsHandError(rt_it.exc)))

(***************************************************************************)
(* cli.py: build(), from lower_program to enforce_capabilities             *)
(***************************************************************************)
\* a lowered statement as the enforcer reads it: its kind, effects and nested
\* lists.  The expressions of the lowering inputs are literals and variables,
\* which lower_expr turns into "lit" and "var" expressions with no call.
RECURSIVE IrOfLowered(_)
IrOfLowered(st) ==
    IrStmt(st.kind, Range(st.effects),
           IF st.kind \in {"if", "while"} THEN NoExpr ELSE LitExpr,
           IF st.kind \in {"if", "while"} THEN LitExpr ELSE NoExpr,
           [k \in 1..Len(st.then) |-> IrOfLowered(st.then[k])],
           [k \in 1..Len(st.else) |-> IrOfLowered(st.else[k])],
           [k \in 1..Len(st.body) |-> IrOfLowered(st.body[k])])

\* cli.py 159-176: the module of lower_program's IR after
\* mod["capabilities"] = _expand_shorthand_caps(mod.get("capabilities")); the
\* capabilities of the functions are left as lowering wrote them
CanonicalizedModule(low) ==
    [capabilities |-> expand_shorthand_caps(Range(low.capabilities)),
     toplevel |-> [k \in 1..Len(low.toplevel) |-> IrOfLowered(low.toplevel[k])],
     functions |-> [k \in 1..Len(low.functions) |->
                      IrFn(low.functions[k].name,
                           Range(low.functions[k].capabilities),
                           Range(low.functions[k].effects),
                           [j \in 1..Len(low.functions[k].body) |->
                              IrOfLowered(low.functions[k].body[j])])],
     origin |-> "module"]

\* C29: for a program that typechecks, the IR of lowering followed by the
\* build's shorthand canonicalization declares only canonical names and, with
\* compute, every capability the enforcer requires of it, so that enforcing
\* it at module scope fails with neither HND-CAP-0001 nor HND-CAP-0201
C29_CompilerIrDeclaresRequired ==
    typecheck(lw_program) = <<>> =>
        \A k \in 1..Len(lw_results) :
            /\ CanonicalizedModule(lw_results[k]).capabilities \subseteq CANON_CAPS
            /\ required_caps_for_module(CanonicalizedModule(lw_results[k]))
                 \subseteq DeclaredMod(CanonicalizedModule(lw_results[k]))
            /\ \A L \in Levels :
                 EnforceModule(CanonicalizedModule(lw_results[k]), L)
                    \notin {"HND-CAP-0001", "HND-CAP-0201"}

====
